---- MODULE Spec2Model ----
(***************************************************************************)
(* Tool-invocation protocol and orchestration layer of the Luxor9          *)
(* prototype: retry wrapper, agent tool loops, connection router, memory   *)
(* store, protocol server and transports, modelled from src/services/*.ts. *)
(*                                                                         *)
(* Each subsystem has its own specification (SpecRetry, SpecMemory,        *)
(* SpecRouter, SpecAgent, SpecServer, SpecSse, SpecSearch) over the shared *)
(* variable tuple; the variables of the other subsystems keep their        *)
(* initial values.                                                         *)
(***************************************************************************)
EXTENDS Integers, Sequences, FiniteSets, TLC

VARIABLES
    \* ---- withRetry (geminiService.ts:13-38) ----
    rtPc,          \* position of the wrapper: idle, calling, sleeping, returned, thrown
    rtMaxRetries,  \* the maxRetries argument
    retries,       \* local `retries`
    rtLog,         \* history: the error of every failed invocation of fn, in order
    rtCalls,       \* history: number of invocations of fn
    rtSleeps,      \* history: number of backoff delays taken
    rtThrown,      \* the error propagated to the caller (NoError while none)
    rtInitialDelay, \* parameter `initialDelay`, in ms
    rtBackoffs,    \* history: local `backoff` of each backoff taken, in ms
    rtDelay,       \* history: backoff, jitter and delay of the last backoff taken, in ms
    \* ---- MemoryService (memoryService.ts) ----
    memories,      \* this.memories, most recent first
    stored,        \* localStorage[STORAGE_KEY]: <<>>-or-sequence wrapped as [present, value]
    clock,         \* Date.now()
    nextId,        \* number of ids handed out so far (ids are unique)
    memLastOp,     \* history: name of the last completed operation
    memPre,        \* history: this.memories on entry of the last saveMemories
    memEvicted,    \* history: TRUE iff the last operation ran the eviction branch of saveMemories
    \* ---- McpClientService (mcpClient.ts) ----
    connections,   \* this.connections: a Map, kept as the sequence of its values in insertion order
    inFlight,      \* registerConnection / disconnect calls suspended at an await
    regCount,      \* history: number of registrations started so far
    regOrder,      \* history: for each id in the map, the rank of the insertion that put the id there
    lastReg,       \* history: outcome of the registerConnection call that has just returned
    lastCall,      \* history: the callTool that has just returned: name, connection chosen, outcome
    allTools,      \* history: the result of the getAllTools() that has just returned
    \* ---- agent tool loops (geminiService.ts:97-514) ----
    agent,         \* which run*Agent function is executing
    agPc,          \* position of the agent body: idle, sending, throttle, tools, returned, failed
    turns,         \* local `turns`
    response,      \* local `response`: functionCalls and text of the last provider response
    functionResponses, \* one slot per requested call: Running, or the settled function response
    dispatchResults,   \* for each call, one slot per parallel_dispatch entry
    sent,          \* the follow-up message handed to chat.sendMessage and not yet answered
    agResult,      \* the text returned by the agent body (0 while none)
    toolTurns,     \* history: number of tool-execution turns of this run of the body
    onlyToolCalls, \* history: every provider response of this run requested a tool call
    toolFault,     \* history: the body rejected because a tool call failed
    callFault,     \* history: for each call of the batch, whether it failed
    dispatchFault, \* history: for each dispatch of each call, whether its sub-invocation raised
    toolRuns,      \* history: per tool, the run of the body that first executed it, and the last execution
    \* ---- LuxorMcpServer behind InternalTransport (mcpServer.ts, mcpTransport.ts) ----
    srvConnected,  \* InternalTransport.connected
    srvRequest,    \* the request envelope of the last send
    srvResponse,   \* the response envelope the last send resolved with
    srvRaised,     \* the fault the last send rejected with ("none" when it resolved)
    srvHandler,    \* history: how the handler or reader the last request reached behaved
    \* ---- SseTransport (mcpTransport.ts) ----
    esState,       \* the EventSource `es` of the last start(): none, connecting, open, closed
    sseConnected,  \* this.connected
    eventSource,   \* this.eventSource is not null
    postEndpoint,  \* this.postEndpoint is defined
    startPc,       \* the promise of the last start(): idle, pending, resolved, rejected
    endpointSeen,  \* history: an 'endpoint' event arrived since the last start()
    sseStarts,     \* history: number of start() calls
    lostAt,        \* history: the start() count when an established channel last failed (0: never)
    sseLastSend,   \* history: outcome of the send() that has just settled
    \* ---- MemoryService.search (memoryService.ts:59-144) ----
    searchArgs,    \* the arguments of the last search and the query embedding obtained
    searchResult,  \* the list the last search returned
    simArgs,       \* the arguments of the last cosineSimilarity
    simResult,     \* its result as a real number
    simNumber,     \* its result as the floating-point number returned
    context,       \* the context block the last buildContextualSystemInstruction built
    ctxPc,         \* where the agent body went after it: none, sendMessage, rejected
    \* ---- RealtimeMcpRouter, the key manager (mcpRouter.ts) ----
    profiles,      \* this.profiles, in insertion order
    profStored,    \* localStorage[STORAGE_KEY] of the profiles
    env,           \* process.env and import.meta.env
    nextProfileId, \* number of profile ids handed out so far
    keyResult,     \* the platform and the result of the last getSmartKey
    \* ---- AgentWorkstation, the chat (AgentWorkstation.tsx:248-325) ----
    messages,      \* state `messages`
    isChatGenerating, \* state `isChatGenerating`
    chatPc,        \* position of handleSend: idle, awaiting (at the await of the agent call)
    chatSends,     \* history: number of handleSend calls that passed the guard
    chatPre,       \* history: `messages` when the last such handleSend was entered
    chatOutcome,   \* history: how the last handleSend ended: none, ignored, sent, fault
    chatEscaped,   \* history: an exception escaped the last handleSend
    chatStale,     \* earlier handleSend invocations still at their await when a later one began
    \* ---- TaskBoard (TaskBoard.tsx) and executeAgentTask (AgentWorkstation.tsx) ----
    tasks,         \* prop `tasks`: the tasks of one message, task i having id i
    executingTaskIds, \* state `executingTaskIds`
    dispatched,    \* history: the button last clicked and the ids it handed to onExecuteTask
    \* ---- generateVideo (videoService.ts:87-131) ----
    vidPc,         \* position of the outermost call: idle, attempting, returned, thrown
    vidConfig,     \* argument `config`: whether image and prompt are set
    vidModelId,    \* argument `modelId` of the outermost call
    vidRequested,  \* `requestedModelId` of the innermost call
    vidAttempts,   \* history: the model id of every runHuggingFaceGeneration call, in order
    vidErrors,     \* history: the error of every failed attempt, in order
    vidThrown      \* the error the outermost call rejected with (NoFault while none)

memVars   == <<memories, stored, clock, nextId, memLastOp, memPre, memEvicted>>
routerVars == <<connections, inFlight, regCount, regOrder, lastReg, lastCall, allTools>>
agentVars == <<agent, agPc, turns, response, functionResponses, dispatchResults,
               sent, agResult, toolTurns, onlyToolCalls, toolFault, callFault,
               dispatchFault, toolRuns>>
retryVars == <<rtPc, rtMaxRetries, retries, rtLog, rtCalls, rtSleeps, rtThrown,
               rtInitialDelay, rtBackoffs, rtDelay>>
serverVars == <<srvConnected, srvRequest, srvResponse, srvRaised, srvHandler>>
sseVars == <<esState, sseConnected, eventSource, postEndpoint, startPc,
             endpointSeen, sseStarts, lostAt, sseLastSend>>
searchVars == <<searchArgs, searchResult, simArgs, simResult, simNumber,
                context, ctxPc>>
keyVars == <<profiles, profStored, env, nextProfileId, keyResult>>
\* the variables of the key manager and of the components
chatVars == <<messages, isChatGenerating, chatPc, chatSends, chatPre, chatOutcome,
              chatEscaped, chatStale>>
boardVars == <<tasks, executingTaskIds, dispatched>>
videoVars == <<vidPc, vidConfig, vidModelId, vidRequested, vidAttempts, vidErrors,
               vidThrown>>
uiVars == <<keyVars, chatVars, boardVars, videoVars>>
\* the variables of the server, the remote transport, the search and the rest
extVars == <<serverVars, sseVars, searchVars, uiVars>>

----------------------------------------------------------------------------
(* Bounds of the model *)

\* largest maxRetries argument explored (the default of the code is 4)
MaxRetriesArg == 4
\* number of addMemory calls that obtain an embedding in one behaviour
MaxAdds == 6
\* largest value of Date.now() explored
MaxClock == 3
\* capacity of the store; the code uses 200 (MAX_MEMORIES), scaled down here
MAX_MEMORIES == 3
\* number of connection registrations started in one behaviour
MaxRegistrations == 3
\* number of router calls suspended at an await at the same time
MaxInFlight == 2
\* largest number of tool calls in one provider response
MaxBatch == 2
\* largest number of entries of one parallel_dispatch call
MaxDispatches == 3
\* start() calls on one SseTransport
MaxStarts == 2
\* nodes in the store a search runs against
MaxStore == 3
\* the largest `limit` argument of search
MaxLimit == 2
\* addProfile calls on one key manager
MaxProfiles == 2
\* chat turns of one conversation
MaxSends == 2
\* tasks of one task list
MaxTasks == 3
\* significant bits of a floating-point number; stands for the 53 bits of a
\* JavaScript number
MantissaBits == 7

----------------------------------------------------------------------------
(* withRetry *)

\* Error messages are sequences of words; <<>> stands for a missing message
\* (error.message undefined, which `?.` and `|| ''` turn into '').
ErrorMessages ==
    { <<>>,
      <<"HTTP", "429">>,
      <<"Quota", "exceeded">>,
      <<"RESOURCE_EXHAUSTED">>,
      <<"Network", "timeout">> }

ErrorStatuses == {"undefined", "RESOURCE_EXHAUSTED"}

Errors == [message : ErrorMessages, status : ErrorStatuses]

NoError == [message |-> <<"<none>">>, status |-> "<none>"]

\* String.prototype.toLowerCase, word by word
ToLowerCase(w) ==
    CASE w = "Quota" -> "quota"
      [] w = "RESOURCE_EXHAUSTED" -> "resource_exhausted"
      [] w = "HTTP" -> "http"
      [] w = "Network" -> "network"
      [] w = "Access" -> "access"
      [] w = "Credential" -> "credential"
      [] w = "Configure" -> "configure"
      [] w = "API" -> "api"
      [] w = "Key" -> "key"
      [] w = "Hub." -> "hub."
      [] w = "Tool" -> "tool"
      [] OTHER -> w

LowerMessage(m) == [i \in 1..Len(m) |-> ToLowerCase(m[i])]

\* String.prototype.includes on the lower-cased message
Includes(m, w) == \E i \in 1..Len(m) : m[i] = w

\* geminiService.ts:19-23
IsRateLimit(error) ==
    LET errorMsg == LowerMessage(error.message)
    IN  \/ Includes(errorMsg, "429")
        \/ Includes(errorMsg, "quota")
        \/ Includes(errorMsg, "resource_exhausted")
        \/ error.status = "RESOURCE_EXHAUSTED"

\* a retry decision that does not look at the kind of the error
RetryAnyError(error, r, maxRetries) == r < maxRetries

\* geminiService.ts:25 -- the retry decision
RetryOnceMore(error, r, maxRetries) == IsRateLimit(error) /\ r <= maxRetries

ShouldRetry(error, r, maxRetries) == IsRateLimit(error) /\ r < maxRetries

\* Math.pow(2, n)
RECURSIVE Pow2(_)
Pow2(n) == IF n = 0 THEN 1 ELSE 2 * Pow2(n - 1)

\* geminiService.ts:13 -- initialDelay = 3000
DefaultInitialDelay == 3000
\* initialDelay arguments
InitialDelays == {1, DefaultInitialDelay}

\* geminiService.ts:27 -- the factor of Math.random() in the jitter
JitterFactor == 1000

\* values of Math.random(), a number in [0, 1), as fractions
Randoms == {[num |-> 0, den |-> 1], [num |-> 1, den |-> 2],
            [num |-> 999, den |-> 1000]}

\* a backoff that grows by initialDelay on each retry
BackoffLinear(initialDelay, r) == initialDelay * (r + 1)

\* geminiService.ts:26 -- initialDelay * Math.pow(2, retries)
Backoff(initialDelay, r) == initialDelay * Pow2(r)

\* geminiService.ts:27 -- Math.random() * 1000, in whole ms
Jitter(random) == (random.num * JitterFactor) \div random.den

\* geminiService.ts:26-28 -- backoff, jitter and delay = backoff + jitter
Delay(initialDelay, r, random) ==
    [backoff |-> Backoff(initialDelay, r), jitter |-> Jitter(random),
     delay |-> Backoff(initialDelay, r) + Jitter(random)]

NoDelay == [backoff |-> 0, jitter |-> 0, delay |-> 0]

InitRetry ==
    /\ rtInitialDelay = DefaultInitialDelay
    /\ rtBackoffs = <<>>
    /\ rtDelay = NoDelay
    /\ rtPc = "idle"
    /\ rtMaxRetries = 0
    /\ retries = 0
    /\ rtLog = <<>>
    /\ rtCalls = 0
    /\ rtSleeps = 0
    /\ rtThrown = NoError

\* withRetry(fn, maxRetries, initialDelay): let retries = 0; first `await fn()`
WithRetry(maxRetries, initialDelay) ==
    /\ rtPc = "idle"
    /\ rtPc' = "calling"
    /\ rtMaxRetries' = maxRetries
    /\ rtInitialDelay' = initialDelay
    /\ retries' = 0
    /\ rtCalls' = 1
    /\ UNCHANGED <<rtLog, rtSleeps, rtThrown, rtBackoffs, rtDelay>>
    /\ UNCHANGED <<memVars, routerVars, agentVars, extVars>>

\* fn() resolves: `return await fn()`
FnResolves ==
    /\ rtPc = "calling"
    /\ rtPc' = "returned"
    /\ UNCHANGED <<rtMaxRetries, retries, rtLog, rtCalls, rtSleeps, rtThrown,
                   rtInitialDelay, rtBackoffs, rtDelay>>
    /\ UNCHANGED <<memVars, routerVars, agentVars, extVars>>

\* geminiService.ts:18-36 -- the catch block: classify, then back off or rethrow
CatchBlock(error, r, maxRetries, initialDelay) ==
    /\ rtLog' = Append(rtLog, error)
    /\ IF ShouldRetry(error, r, maxRetries)
         THEN /\ rtPc' = "sleeping"
              /\ rtSleeps' = rtSleeps + 1
              /\ rtBackoffs' = Append(rtBackoffs, Backoff(initialDelay, r))
              /\ \E random \in Randoms :
                    rtDelay' = Delay(initialDelay, r, random)
              /\ UNCHANGED rtThrown
         ELSE /\ rtPc' = "thrown"
              /\ rtThrown' = error
              /\ UNCHANGED <<rtSleeps, rtBackoffs, rtDelay>>

\* fn() has rejected with `error`: the catch block runs
RetryCatch(error) ==
    /\ rtPc = "calling"
    /\ CatchBlock(error, retries, rtMaxRetries, rtInitialDelay)
    /\ UNCHANGED <<rtMaxRetries, retries, rtCalls, rtInitialDelay>>

\* fn() rejects with `error`
FnRejects(error) ==
    /\ RetryCatch(error)
    /\ UNCHANGED <<memVars, routerVars, agentVars, extVars>>

\* geminiService.ts:31-33 -- the backoff timer fires: retries++; continue
RetryContinue ==
    /\ rtPc = "sleeping"
    /\ rtPc' = "calling"
    /\ retries' = retries + 1
    /\ rtCalls' = rtCalls + 1
    /\ UNCHANGED <<rtMaxRetries, rtLog, rtSleeps, rtThrown, rtInitialDelay,
                   rtBackoffs, rtDelay>>

\* the backoff timer fires and fn is invoked again
BackoffElapsed ==
    /\ RetryContinue
    /\ UNCHANGED <<memVars, routerVars, agentVars, extVars>>

----------------------------------------------------------------------------
(* MemoryService *)

Min(a, b) == IF a < b THEN a ELSE b
Max(a, b) == IF a > b THEN a ELSE b

\* insertion of x into a sequence sorted by timestamp descending, after every
\* element that does not sort after it (keeps the sort stable)
RECURSIVE InsertDesc(_, _)
InsertDesc(x, s) ==
    IF s = <<>> THEN <<x>>
    ELSE IF Head(s).timestamp >= x.timestamp
           THEN <<Head(s)>> \o InsertDesc(x, Tail(s))
           ELSE <<x>> \o s

\* Array.prototype.sort((a, b) => b.timestamp - a.timestamp), a stable sort
RECURSIVE SortByTimestampDesc(_)
SortByTimestampDesc(s) ==
    IF s = <<>> THEN <<>>
    ELSE LET rest == SortByTimestampDesc(SubSeq(s, 1, Len(s) - 1))
         IN  InsertDesc(s[Len(s)], rest)

IsPinned(m) == m.isPinned
IsUnpinned(m) == ~m.isPinned

\* Array.prototype.slice(0, n)
Slice0(s, n) == SubSeq(s, 1, Min(n, Len(s)))

\* memoryService.ts:34-48 with the pinned protection left out
EvictOldestFirst(mems) ==
    Slice0(SortByTimestampDesc(mems), MAX_MEMORIES)

\* memoryService.ts:34-48 -- the eviction branch of saveMemories
Evict(mems) ==
    LET pinned == SelectSeq(mems, IsPinned)
        unpinned == SortByTimestampDesc(SelectSeq(mems, IsUnpinned))
        spaceForUnpinned == Max(0, MAX_MEMORIES - Len(pinned))
    IN  SortByTimestampDesc(pinned \o Slice0(unpinned, spaceForUnpinned))

\* a saveMemories without the limit
SaveMemoriesKeepsAll(mems) == mems

\* memoryService.ts:29-54 -- the collection saveMemories leaves in memory
SaveMemories(mems) ==
    IF Len(mems) > MAX_MEMORIES THEN Evict(mems) ELSE mems

Persisted(mems) == [present |-> TRUE, value |-> mems]
NothingStored == [present |-> FALSE, value |-> <<>>]

InitMemory ==
    /\ memories = <<>>
    /\ stored = NothingStored
    /\ clock = 0
    /\ nextId = 0
    /\ memLastOp = "none"
    /\ memPre = <<>>
    /\ memEvicted = FALSE

\* a saveMemories that writes the collection to storage before trimming it
SavePersistsUntrimmed(mems, op) ==
    /\ memories' = SaveMemories(mems)
    /\ stored' = Persisted(mems)
    /\ memPre' = mems
    /\ memEvicted' = (Len(mems) > MAX_MEMORIES)
    /\ memLastOp' = op

\* the new memories, the persisted copy and the history of one saveMemories
Save(mems, op) ==
    /\ memories' = SaveMemories(mems)
    /\ stored' = Persisted(SaveMemories(mems))
    /\ memPre' = mems
    /\ memEvicted' = (Len(mems) > MAX_MEMORIES)
    /\ memLastOp' = op

\* addMemory when getEmbedding yields an embedding; Date.now() may have advanced
AddMemory(tick) ==
    /\ nextId < MaxAdds
    /\ clock + tick <= MaxClock
    /\ clock' = clock + tick
    /\ nextId' = nextId + 1
    /\ LET newNode == [id |-> nextId + 1, timestamp |-> clock + tick,
                       isPinned |-> FALSE]
       IN  Save(<<newNode>> \o memories, "addMemory")
    /\ UNCHANGED <<retryVars, routerVars, agentVars, extVars>>

\* addMemory that stores a node without embedding when getEmbedding returns null
AddMemoryStoresAnyway ==
    /\ nextId < MaxAdds
    /\ nextId' = nextId + 1
    /\ Save(<<[id |-> nextId + 1, timestamp |-> clock, isPinned |-> FALSE]>>
              \o memories, "addMemoryNull")
    /\ UNCHANGED clock
    /\ UNCHANGED <<retryVars, routerVars, agentVars, extVars>>

\* addMemory when getEmbedding returns null: `return null` before any change
AddMemoryNoEmbedding ==
    /\ memLastOp' = "addMemoryNull"
    /\ memEvicted' = FALSE
    /\ UNCHANGED <<memories, stored, clock, nextId, memPre>>
    /\ UNCHANGED <<retryVars, routerVars, agentVars, extVars>>

\* togglePin(id): flips the first node with that id, then saveMemories
TogglePin(id) ==
    /\ \E i \in 1..Len(memories) :
          /\ memories[i].id = id
          /\ \A j \in 1..(i - 1) : memories[j].id # id
          /\ Save([memories EXCEPT ![i].isPinned = ~memories[i].isPinned],
                  "togglePin")
    /\ UNCHANGED <<clock, nextId>>
    /\ UNCHANGED <<retryVars, routerVars, agentVars, extVars>>

\* deleteMemory(id)
DeleteMemory(id) ==
    /\ LET keep(m) == m.id # id
       IN  Save(SelectSeq(memories, keep), "deleteMemory")
    /\ UNCHANGED <<clock, nextId>>
    /\ UNCHANGED <<retryVars, routerVars, agentVars, extVars>>

\* clear(): this.memories = []; localStorage.removeItem(STORAGE_KEY)
Clear ==
    /\ memories' = <<>>
    /\ stored' = NothingStored
    /\ memLastOp' = "clear"
    /\ memEvicted' = FALSE
    /\ UNCHANGED <<clock, nextId, memPre>>
    /\ UNCHANGED <<retryVars, routerVars, agentVars, extVars>>

\* a page reload constructs the service anew: loadMemories()
LoadMemories ==
    /\ memories' = IF stored.present THEN stored.value ELSE <<>>
    /\ memLastOp' = "loadMemories"
    /\ memEvicted' = FALSE
    /\ UNCHANGED <<stored, clock, nextId, memPre>>
    /\ UNCHANGED <<retryVars, routerVars, agentVars, extVars>>

----------------------------------------------------------------------------
(* McpClientService: the connection router *)

\* tool names; the internal server's catalog is abridged to two of its tools
ToolNames == {"browser_interact", "deploy_container"}

InternalCatalog ==
    <<"generate_task_list", "parallel_dispatch", "browser_interact", "deploy_container">>

\* catalogs a remote server may list or a caller may inject
Catalogs ==
    { <<>>, <<"browser_interact">>, <<"deploy_container", "browser_interact">> }

\* `sse-${Date.now()}`, `pkg-${packageId}-${Date.now()}`: ids repeat when
\* two registrations fall into the same millisecond
SseIds == {"sse-1"}
SimulatedIds == {"pkg-1"}
ConnIds == {"internal"} \cup SseIds \cup SimulatedIds

Transport(kind, connected) == [kind |-> kind, connected |-> connected]

\* Map.prototype.get: the index of the entry with key id, 0 when absent
MapIndex(conns, id) ==
    IF \E i \in 1..Len(conns) : conns[i].id = id
      THEN CHOOSE i \in 1..Len(conns) : conns[i].id = id
      ELSE 0

\* Map.prototype.set: a present key keeps its place, a new key goes last
MapSet(conns, conn) ==
    IF MapIndex(conns, conn.id) # 0
      THEN [conns EXCEPT ![MapIndex(conns, conn.id)] = conn]
      ELSE Append(conns, conn)

\* Map.prototype.delete
MapDelete(conns, id) ==
    LET other(c) == c.id # id IN SelectSeq(conns, other)

Connected(id, transport, tools) ==
    [id |-> id, transport |-> transport, tools |-> tools,
     status |-> "connected", error |-> "undefined"]

\* mcpClient.ts:100-109 with the failed connection dropped
DropFailed(conns, id, transport, message) == conns

\* mcpClient.ts:100-109 -- the catch branch of registerConnection
StoreFailed(conns, id, transport, message) ==
    MapSet(conns, [id |-> id, transport |-> transport, tools |-> <<>>,
                   status |-> "error", error |-> message])

HasTool(conn, name) == \E k \in 1..Len(conn.tools) : conn.tools[k] = name

Candidate(conn, name) == conn.status = "connected" /\ HasTool(conn, name)

\* mcpClient.ts:156-161 with the scan keeping the last match
LastMatch(conns, name) ==
    IF \E i \in 1..Len(conns) : Candidate(conns[i], name)
      THEN CHOOSE i \in 1..Len(conns) :
              /\ Candidate(conns[i], name)
              /\ \A j \in (i + 1)..Len(conns) : ~Candidate(conns[j], name)
      ELSE 0

\* mcpClient.ts:156-161 -- index of targetConn, 0 when undefined
FirstMatch(conns, name) ==
    IF \E i \in 1..Len(conns) : Candidate(conns[i], name)
      THEN CHOOSE i \in 1..Len(conns) :
              /\ Candidate(conns[i], name)
              /\ \A j \in 1..(i - 1) : ~Candidate(conns[j], name)
      ELSE 0

\* what the backend behind a transport does with one request
WireOutcomes == {"ok", "isError", "rpcError", "noContent", "nullBody", "sendFails"}

\* the outcomes each kind of transport can produce for tools/call:
\*  internal  -- handleMessage always answers {result: {content, isError?}}
\*  simulated -- the installed handler answers {result: {content}}
\*  sse       -- whatever the remote server and the network do
WireOf(kind) ==
    CASE kind = "internal" -> {"ok", "isError"}
      [] kind = "simulated" -> {"ok"}
      [] OTHER -> WireOutcomes

NoCall == [name |-> "<none>", target |-> "<none>",
           raised |-> FALSE, result |-> "<none>"]

\* mcpClient.ts:150-191 -- outcome of callTool(name) on the map conns when
\* the backend of the chosen connection behaves as wire
CallToolResult(conns, name, wire) ==
    LET t == FirstMatch(conns, name) IN
    IF t = 0
      THEN [name |-> name, target |-> "<none>",
            raised |-> TRUE, result |-> "ToolNotFound"]
    ELSE IF conns[t].transport.kind # "simulated" /\ ~conns[t].transport.connected
      THEN [name |-> name, target |-> conns[t].id,
            raised |-> TRUE, result |-> "NotConnected"]
    ELSE IF wire = "sendFails"
      THEN [name |-> name, target |-> conns[t].id,
            raised |-> TRUE, result |-> "TransportError"]
    ELSE IF wire = "nullBody"
      THEN [name |-> name, target |-> conns[t].id,
            raised |-> TRUE, result |-> "TypeError"]
    ELSE [name |-> name, target |-> conns[t].id,
          raised |-> FALSE,
          result |-> CASE wire = "rpcError" -> "isError"
                       [] wire = "isError" -> "isError"
                       [] wire = "noContent" -> "noContent"
                       [] OTHER -> "content"]

NoReg == [id |-> "<none>", failure |-> "none", message |-> "undefined"]

\* mcpClient.ts:124-132 with entries of an already listed tool name skipped
RECURSIVE GetAllToolsDedup(_)
GetAllToolsDedup(conns) ==
    IF conns = <<>> THEN <<>>
    ELSE LET front == GetAllToolsDedup(SubSeq(conns, 1, Len(conns) - 1))
             conn == conns[Len(conns)]
             fresh(t) == \A k \in 1..Len(front) : front[k].tool # t
         IN  IF conn.status = "connected"
               THEN front \o [k \in 1..Len(SelectSeq(conn.tools, fresh)) |->
                                [tool |-> SelectSeq(conn.tools, fresh)[k],
                                 connectionId |-> conn.id]]
               ELSE front

\* mcpClient.ts:124-132 -- getAllTools(): connections in map order, tools
\* in catalog order
RECURSIVE GetAllTools(_)
GetAllTools(conns) ==
    IF conns = <<>> THEN <<>>
    ELSE LET front == GetAllTools(SubSeq(conns, 1, Len(conns) - 1))
             conn == conns[Len(conns)]
         IN  IF conn.status = "connected"
               THEN front \o [k \in 1..Len(conn.tools) |->
                                [tool |-> conn.tools[k], connectionId |-> conn.id]]
               ELSE front

NotAsked == [asked |-> FALSE, value |-> <<>>]

\* the constructor starts connectInternal() and does not await it
InitRouter ==
    /\ connections = <<>>
    /\ inFlight = {[n |-> 1, op |-> "register", id |-> "internal", pc |-> "start",
                    transport |-> Transport("internal", FALSE)]}
    /\ regCount = 1
    /\ regOrder = [id \in ConnIds |-> 0]
    /\ lastReg = NoReg
    /\ lastCall = NoCall
    /\ allTools = NotAsked

\* history: the ranks after the map changed from conns to newConns; an id
\* that enters the map is ranked after every id present, an id that stays
\* keeps its rank, an id that leaves loses it
MaxRank == CHOOSE r \in 0..(MaxRegistrations + 2) :
              /\ \E id \in ConnIds : regOrder[id] = r \/ r = 0
              /\ \A id \in ConnIds : regOrder[id] <= r

Ranked(conns, newConns) ==
    [id \in ConnIds |->
        IF MapIndex(newConns, id) = 0 THEN 0
        ELSE IF MapIndex(conns, id) # 0 THEN regOrder[id]
        ELSE MaxRank + 1]

\* connectSse(url): new SseTransport(url); registerConnection(id, transport)
\* up to its first await, transport.start()
ConnectSse(id) ==
    /\ regCount < MaxRegistrations
    /\ Cardinality(inFlight) < MaxInFlight
    /\ regCount' = regCount + 1
    /\ inFlight' = inFlight \cup
          {[n |-> regCount + 1, op |-> "register", id |-> id, pc |-> "start",
            transport |-> Transport("sse", FALSE)]}
    /\ lastReg' = NoReg
    /\ lastCall' = NoCall
    /\ allTools' = NotAsked
    /\ UNCHANGED <<connections, regOrder>>
    /\ UNCHANGED <<retryVars, memVars, agentVars, extVars>>


\* the histories of calls that have just returned are forgotten by any
\* other step of the router
Forget ==
    /\ lastReg' = NoReg
    /\ lastCall' = NoCall
    /\ allTools' = NotAsked

\* transport.start() resolves (mcpClient.ts:75); the tools/list request is
\* sent (mcpClient.ts:84)
StartResolves(r) ==
    /\ r \in inFlight /\ r.op = "register" /\ r.pc = "start"
    /\ inFlight' = (inFlight \ {r}) \cup
          {[r EXCEPT !.pc = "list", !.transport.connected = TRUE]}
    /\ Forget
    /\ UNCHANGED <<connections, regCount, regOrder>>
    /\ UNCHANGED <<retryVars, memVars, agentVars, extVars>>

\* transport.start() rejects: SseTransport's onerror before onopen; the
\* catch branch stores the connection with status 'error'
StartRejects(r) ==
    /\ r \in inFlight /\ r.op = "register" /\ r.pc = "start"
    /\ r.transport.kind = "sse"
    /\ inFlight' = inFlight \ {r}
    /\ LET newConns == StoreFailed(connections, r.id, r.transport, "Failed to connect")
       IN  /\ connections' = newConns
           /\ regOrder' = Ranked(connections, newConns)
    /\ lastReg' = [id |-> r.id, failure |-> "start", message |-> "Failed to connect"]
    /\ lastCall' = NoCall
    /\ allTools' = NotAsked
    /\ UNCHANGED regCount
    /\ UNCHANGED <<retryVars, memVars, agentVars, extVars>>

\* the push channel of a transport whose registration is still awaiting the
\* tools/list answer fails: onerror calls close()
SseErrorWhileListing(r) ==
    /\ r \in inFlight /\ r.op = "register" /\ r.pc = "list"
    /\ r.transport.kind = "sse" /\ r.transport.connected
    /\ inFlight' = (inFlight \ {r}) \cup {[r EXCEPT !.transport.connected = FALSE]}
    /\ Forget
    /\ UNCHANGED <<connections, regCount, regOrder>>
    /\ UNCHANGED <<retryVars, memVars, agentVars, extVars>>

\* answers to tools/list: the internal server lists its catalog; a remote
\* server may list a catalog, omit `tools`, omit `result`, answer an error
\* envelope or a null body, or the POST may fail
ListOutcomes(kind) ==
    IF kind = "internal" THEN {"ok"}
    ELSE {"ok", "noTools", "noResult", "rpcError", "nullBody", "sendFails"}

ListFailure(r, wire) ==
    CASE ~r.transport.connected -> "not connected"
      [] wire = "sendFails" -> "MCP POST failed"
      [] wire = "rpcError" -> "rpc error"
      [] wire \in {"nullBody", "noResult"} -> "TypeError"
      [] OTHER -> "none"

\* transport.send(tools/list) settles (mcpClient.ts:84-109)
ListSettles(r, wire, catalog) ==
    /\ r \in inFlight /\ r.op = "register" /\ r.pc = "list"
    /\ wire \in ListOutcomes(r.transport.kind)
    /\ r.transport.kind = "internal" => catalog = InternalCatalog
    /\ wire # "ok" => catalog = <<>>
    /\ inFlight' = inFlight \ {r}
    /\ LET failure == ListFailure(r, wire)
           newConns == IF failure = "none"
                         THEN MapSet(connections, Connected(r.id, r.transport, catalog))
                         ELSE StoreFailed(connections, r.id, r.transport, failure)
       IN  /\ connections' = newConns
           /\ regOrder' = Ranked(connections, newConns)
           /\ lastReg' = [id |-> r.id,
                          failure |-> IF failure = "none" THEN "none" ELSE "list",
                          message |-> IF failure = "none" THEN "undefined" ELSE failure]
    /\ lastCall' = NoCall
    /\ allTools' = NotAsked
    /\ UNCHANGED regCount
    /\ UNCHANGED <<retryVars, memVars, agentVars, extVars>>

\* registerSimulatedConnection(id, name, tools, handler): no await
RegisterSimulatedConnection(id, tools) ==
    /\ regCount < MaxRegistrations
    /\ regCount' = regCount + 1
    /\ LET newConns == MapSet(connections,
                               Connected(id, Transport("simulated", TRUE), tools))
       IN  /\ connections' = newConns
           /\ regOrder' = Ranked(connections, newConns)
    /\ Forget
    /\ UNCHANGED inFlight
    /\ UNCHANGED <<retryVars, memVars, agentVars, extVars>>

\* the push channel of a registered SSE connection fails: onerror calls
\* close(); the router's status field is not touched
SseChannelError(i) ==
    /\ i \in 1..Len(connections)
    /\ connections[i].transport.kind = "sse"
    /\ connections[i].transport.connected
    /\ connections' = [connections EXCEPT ![i].transport.connected = FALSE]
    /\ Forget
    /\ UNCHANGED <<inFlight, regCount, regOrder>>
    /\ UNCHANGED <<retryVars, memVars, agentVars, extVars>>

\* disconnect(id) up to its await: conn.transport.close()
Disconnect(id) ==
    /\ MapIndex(connections, id) # 0
    /\ Cardinality(inFlight) < MaxInFlight
    /\ connections' = [connections EXCEPT
                          ![MapIndex(connections, id)].transport.connected = FALSE]
    /\ inFlight' = inFlight \cup
          {[n |-> 0, op |-> "disconnect", id |-> id, pc |-> "delete",
            transport |-> Transport("none", FALSE)]}
    /\ Forget
    /\ UNCHANGED <<regCount, regOrder>>
    /\ UNCHANGED <<retryVars, memVars, agentVars, extVars>>

\* disconnect(id) after the await: this.connections.delete(id)
DisconnectDelete(r) ==
    /\ r \in inFlight /\ r.op = "disconnect"
    /\ inFlight' = inFlight \ {r}
    /\ LET newConns == MapDelete(connections, r.id)
       IN  /\ connections' = newConns
           /\ regOrder' = Ranked(connections, newConns)
    /\ Forget
    /\ UNCHANGED regCount
    /\ UNCHANGED <<retryVars, memVars, agentVars, extVars>>

\* callTool(name, args) with the chosen backend behaving as wire
CallTool(name, wire) ==
    /\ FirstMatch(connections, name) # 0 =>
          wire \in WireOf(connections[FirstMatch(connections, name)].transport.kind)
    /\ FirstMatch(connections, name) = 0 => wire = "ok"
    /\ lastCall' = CallToolResult(connections, name, wire)
    /\ lastReg' = NoReg
    /\ allTools' = NotAsked
    /\ UNCHANGED <<connections, inFlight, regCount, regOrder>>
    /\ UNCHANGED <<retryVars, memVars, agentVars, extVars>>

\* getAllTools()
GetAllToolsCall ==
    /\ allTools' = [asked |-> TRUE, value |-> GetAllTools(connections)]
    /\ lastReg' = NoReg
    /\ lastCall' = NoCall
    /\ UNCHANGED <<connections, inFlight, regCount, regOrder>>
    /\ UNCHANGED <<retryVars, memVars, agentVars, extVars>>

----------------------------------------------------------------------------
(* Agent tool loops: runOverseerAgent and the sub-agents *)

\* one agent per shape of tool loop: runDataAnalystAgent and runDeveloperAgent
\* repeat the loop of runResearcherAgent, runIntegrationAgent and
\* runAntigravityAgent the body of runHrManagerAgent
Agents == {"OVERSEER", "HR_MANAGER", "RESEARCHER"}

\* withRetry's default maxRetries, used by every agent
DefaultMaxRetries == 4
\* `turns < 6` in runOverseerAgent
OverseerTurnLimit == 6
\* `turns < 5` in runResearcherAgent, runDataAnalystAgent, runDeveloperAgent
SpecialistTurnLimit == 5
\* runHrManagerAgent, runIntegrationAgent, runAntigravityAgent use `if`, not `while`
ManagerTurnLimit == 1

TurnLimit(a) ==
    CASE a = "OVERSEER" -> OverseerTurnLimit
      [] a \in {"RESEARCHER", "DATA_ANALYST", "DEVELOPER"} -> SpecialistTurnLimit
      [] OTHER -> ManagerTurnLimit

\* the agents the switch of the parallel_dispatch branch handles
HandledAgents == {"HR_MANAGER", "INTEGRATION_LEAD", "RESEARCHER", "DATA_ANALYST",
                  "DEVELOPER", "ANTIGRAVITY", "VISIONARY", "DIRECTOR",
                  "NAVIGATOR", "SPEEDSTER"}

\* agents a dispatch entry may name: one the switch handles, one it does not
DispatchAgents == {"RESEARCHER", "COMMUNICATOR"}

\* args.dispatches: up to MaxDispatches entries, all for a handled agent or
\* the last one for an agent the switch does not handle
DispatchLists ==
    UNION {{d \in [1..n -> DispatchAgents] :
              \A k \in 1..(n - 1) : d[k] = "RESEARCHER"} : n \in 0..MaxDispatches}

\* a requested function call: its name, whether call.args is an object,
\* whether args.dispatches is present, and the agents of args.dispatches
FunctionCall(name, args, hasDispatches, dispatches) ==
    [name |-> name, args |-> args, hasDispatches |-> hasDispatches,
     dispatches |-> dispatches]

FunctionCalls ==
    {FunctionCall("generate_task_list", "undefined", FALSE, <<>>)}
    \cup {FunctionCall("parallel_dispatch", "object", TRUE, d) : d \in DispatchLists}
    \cup {FunctionCall("remote_search", "object", FALSE, <<>>),
          FunctionCall("unknown_tool", "object", FALSE, <<>>)}

\* response.functionCalls of a response that requests tool calls
Batches == UNION {[1..n -> FunctionCalls] : n \in 1..MaxBatch}

NoResponse == [functionCalls |-> <<>>, text |-> 0]

\* the slot of a call whose mapper has not settled
Running == [name |-> "<running>", id |-> 0, kind |-> "running", outcomes |-> <<>>]

FunctionResponse(call, i, kind, outcomes) ==
    [name |-> call.name, id |-> i, kind |-> kind, outcomes |-> outcomes]

\* the router state the agents run against: the internal server and one
\* remote server exposing remote_search
AgentConnections ==
    << Connected("internal", Transport("internal", TRUE), InternalCatalog),
       Connected("sse-1", Transport("sse", TRUE), <<"remote_search">>) >>

ToolFault == [message |-> <<"Tool", "fault">>, status |-> "undefined"]
RateLimited == [message |-> <<"HTTP", "429">>, status |-> "undefined"]
ProviderDown == [message |-> <<"Network", "timeout">>, status |-> "undefined"]
\* geminiService.ts:44 -- the Error getClient throws
CredentialMissing ==
    [message |-> <<"Access", "Credential", "missing.", "Configure", "API",
                   "Key", "in", "Hub.">>,
     status |-> "undefined"]

\* a parallel_dispatch branch in the loop of every agent
IsFanOutAnyAgent(a, call) ==
    /\ call.name = "parallel_dispatch"
    /\ call.args = "object"
    /\ call.hasDispatches

\* geminiService.ts:171 -- the parallel_dispatch branch is taken
IsFanOut(a, call) ==
    /\ a = "OVERSEER"
    /\ call.name = "parallel_dispatch"
    /\ call.args = "object"
    /\ call.hasDispatches

\* geminiService.ts:153,171 -- `args.tasks` / `args.dispatches` on undefined args
ArgsFault(a, call) ==
    /\ a = "OVERSEER"
    /\ call.name \in {"generate_task_list", "parallel_dispatch"}
    /\ call.args = "undefined"

\* a call fails: reading its arguments faults, callTool raises, or the result
\* has no content to map
CallFails(a, call, r) ==
    ArgsFault(a, call) \/ r.raised \/ r.result = "noContent"

\* geminiService.ts:372-379 -- a sub-agent's mapper: no failure boundary, a
\* failing call rejects the mapper
SubAgentCallResponse(a, call, i, r) ==
    IF CallFails(a, call, r)
      THEN FunctionResponse(call, i, "abort", <<>>)
      ELSE FunctionResponse(call, i, "content", <<>>)

\* geminiService.ts:238-252 without the try / catch: a failing call
\* rejects the mapper
OverseerCallAborts(a, call, i, r) ==
    IF CallFails(a, call, r)
      THEN FunctionResponse(call, i, "abort", <<>>)
      ELSE FunctionResponse(call, i, "content", <<>>)

\* geminiService.ts:238-252 -- the overseer's mapper: try / catch around
\* the whole call
OverseerCallResponse(a, call, i, r) ==
    IF CallFails(a, call, r)
      THEN FunctionResponse(call, i, "error", <<>>)
      ELSE FunctionResponse(call, i, "content", <<>>)

CallResponse(a, call, i, r) ==
    IF a = "OVERSEER" THEN OverseerCallResponse(a, call, i, r)
    ELSE SubAgentCallResponse(a, call, i, r)

\* geminiService.ts:212-214 with every outcome tagged SUCCESS
DispatchAlwaysSuccess(d, raised) == [agent |-> d, status |-> "SUCCESS"]

\* geminiService.ts:212-214 -- the outcome of one dispatch
DispatchOutcome(d, raised) ==
    [agent |-> d, status |-> IF raised THEN "ERROR" ELSE "SUCCESS"]

\* geminiService.ts:172-221 without the inner try / catch: a failing
\* dispatch rejects the inner Promise.all and the outer catch answers
AggregateFailFast(call, i, outcomes) ==
    IF \E k \in 1..Len(outcomes) : outcomes[k].status = "ERROR"
      THEN FunctionResponse(call, i, "error", <<>>)
      ELSE FunctionResponse(call, i, "batch", outcomes)

\* geminiService.ts:217-221 -- the aggregated result of a parallel_dispatch
AggregateDispatch(call, i, outcomes) ==
    FunctionResponse(call, i, "batch", outcomes)

\* a Promise.race in place of Promise.all
JoinAny(frs) == \E i \in 1..Len(frs) : frs[i].kind # "running"

\* geminiService.ts:149,253 -- Promise.all over the mappers has resolved
JoinReady(frs) == \A i \in 1..Len(frs) : frs[i].kind # "running"

\* the tool names a provider response may request
CallNames == {call.name : call \in FunctionCalls}

\* the tool behind callTool ran and answered: the request reached its backend
\* and a tool result came back
Executed(t, wire) == t # 0 /\ wire \in {"ok", "isError", "noContent"}

NoToolRuns ==
    [first |-> [n \in CallNames |-> 0], last |-> [name |-> "<none>", run |-> 0]]

\* tool `name` has executed in run `run` of the body
RecordRun(runs, name, run) ==
    [first |-> IF runs.first[name] = 0
                 THEN [runs.first EXCEPT ![name] = run] ELSE runs.first,
     last |-> [name |-> name, run |-> run]]

InitAgent ==
    /\ agent = "none"
    /\ agPc = "idle"
    /\ turns = 0
    /\ response = NoResponse
    /\ functionResponses = <<>>
    /\ dispatchResults = <<>>
    /\ callFault = <<>>
    /\ dispatchFault = <<>>
    /\ sent = <<>>
    /\ agResult = 0
    /\ toolTurns = 0
    /\ onlyToolCalls = TRUE
    /\ toolFault = FALSE
    /\ toolRuns = NoToolRuns

\* the body passed to withRetry starts: chat created, first sendMessage issued
BodyBegins ==
    /\ agPc' = "sending"
    /\ turns' = 0
    /\ response' = NoResponse
    /\ functionResponses' = <<>>
    /\ dispatchResults' = <<>>
    /\ callFault' = <<>>
    /\ dispatchFault' = <<>>
    /\ sent' = <<>>
    /\ agResult' = 0
    /\ toolTurns' = 0
    /\ onlyToolCalls' = TRUE
    /\ toolFault' = FALSE

\* run*Agent(prompt, history): withRetry(async () => { ... })
AgentStart(a) ==
    /\ rtPc = "idle" /\ agPc = "idle"
    /\ agent' = a
    /\ rtPc' = "calling"
    /\ rtMaxRetries' = DefaultMaxRetries
    /\ rtInitialDelay' = DefaultInitialDelay
    /\ retries' = 0
    /\ rtCalls' = 1
    /\ UNCHANGED <<rtLog, rtSleeps, rtThrown, rtBackoffs, rtDelay>>
    /\ BodyBegins
    /\ toolRuns' = NoToolRuns
    /\ UNCHANGED <<memVars, routerVars, extVars>>

\* run*Agent(prompt, history) while keyManager.getUniversalKey() yields no
\* key: getClient(), the first statement of the body, throws and the catch
\* block of withRetry runs before anything was sent
GetClientThrows(a) ==
    /\ rtPc = "idle" /\ agPc = "idle"
    /\ agent' = a
    /\ agPc' = "failed"
    /\ rtMaxRetries' = DefaultMaxRetries
    /\ rtInitialDelay' = DefaultInitialDelay
    /\ retries' = 0
    /\ rtCalls' = 1
    /\ CatchBlock(CredentialMissing, 0, DefaultMaxRetries, DefaultInitialDelay)
    /\ toolRuns' = NoToolRuns
    /\ UNCHANGED <<turns, response, functionResponses, dispatchResults,
                   callFault, dispatchFault, sent, agResult, toolTurns,
                   onlyToolCalls, toolFault>>
    /\ UNCHANGED <<memVars, routerVars, extVars>>

\* the mappers of response.functionCalls are started, all in the same step
\* (Array.prototype.map over async functions); every dispatch of a
\* parallel_dispatch call is started likewise
MappersStart(a, calls) ==
    /\ agPc' = "tools"
    /\ functionResponses' = [i \in 1..Len(calls) |-> Running]
    /\ callFault' = [i \in 1..Len(calls) |-> FALSE]
    /\ dispatchFault' =
          [i \in 1..Len(calls) |->
              IF IsFanOut(a, calls[i])
                THEN [k \in 1..Len(calls[i].dispatches) |-> FALSE]
                ELSE <<>>]
    /\ dispatchResults' =
          [i \in 1..Len(calls) |->
              IF IsFanOut(a, calls[i])
                THEN [k \in 1..Len(calls[i].dispatches) |->
                        [agent |-> calls[i].dispatches[k], status |-> "RUNNING"]]
                ELSE <<>>]

\* chat.sendMessage resolves with a response requesting the calls of batch
\* (none when batch is empty); `turns++` if it answers a follow-up; then the
\* loop condition is evaluated
ProviderResponds(batch) ==
    /\ agPc = "sending"
    /\ LET newTurns == IF response = NoResponse THEN turns ELSE turns + 1
           newResponse == [functionCalls |-> batch, text |-> response.text + 1]
       IN  /\ turns' = newTurns
           /\ response' = newResponse
           /\ onlyToolCalls' = (onlyToolCalls /\ Len(batch) > 0)
           /\ sent' = <<>>
           /\ IF Len(batch) > 0 /\ newTurns < TurnLimit(agent)
                THEN /\ IF agent = "OVERSEER"
                           THEN /\ agPc' = "throttle"
                                /\ functionResponses' = <<>>
                                /\ callFault' = <<>>
                                /\ dispatchFault' = <<>>
                                /\ dispatchResults' = <<>>
                           ELSE MappersStart(agent, batch)
                     /\ UNCHANGED <<agResult, retryVars>>
                ELSE /\ agPc' = "returned"
                     /\ agResult' = newResponse.text
                     /\ functionResponses' = <<>>
                     /\ callFault' = <<>>
                     /\ dispatchFault' = <<>>
                     /\ dispatchResults' = <<>>
                     /\ rtPc' = "returned"
                     /\ UNCHANGED <<rtMaxRetries, retries, rtLog, rtCalls,
                                    rtSleeps, rtThrown, rtInitialDelay,
                                    rtBackoffs, rtDelay>>
    /\ UNCHANGED <<agent, toolTurns, toolFault, toolRuns>>
    /\ UNCHANGED <<memVars, routerVars, extVars>>

\* chat.sendMessage rejects: the body rejects and withRetry's catch runs
ProviderFails(error) ==
    /\ agPc = "sending"
    /\ agPc' = "failed"
    /\ RetryCatch(error)
    /\ UNCHANGED <<agent, turns, response, functionResponses, dispatchResults,
                   callFault, dispatchFault, sent, agResult, toolTurns,
                   onlyToolCalls, toolFault, toolRuns>>
    /\ UNCHANGED <<memVars, routerVars, extVars>>

\* the overseer's turnThrottle() delay has elapsed
ThrottleElapsed ==
    /\ agPc = "throttle"
    /\ MappersStart(agent, response.functionCalls)
    /\ UNCHANGED <<agent, turns, response, sent, agResult, toolTurns,
                   onlyToolCalls, toolFault, toolRuns>>
    /\ UNCHANGED <<retryVars, memVars, routerVars, extVars>>

\* the sub-invocation of dispatch k of call i settles
DispatchSettles(i, k, raised) ==
    /\ agPc = "tools"
    /\ i \in 1..Len(dispatchResults)
    /\ k \in 1..Len(dispatchResults[i])
    /\ dispatchResults[i][k].status = "RUNNING"
    /\ raised => dispatchResults[i][k].agent \in HandledAgents
    /\ dispatchResults' = [dispatchResults EXCEPT
          ![i][k] = DispatchOutcome(dispatchResults[i][k].agent, raised)]
    /\ dispatchFault' = [dispatchFault EXCEPT ![i][k] = raised]
    /\ UNCHANGED <<agent, agPc, turns, response, functionResponses, callFault,
                   sent, agResult, toolTurns, onlyToolCalls, toolFault, toolRuns>>
    /\ UNCHANGED <<retryVars, memVars, routerVars, extVars>>

\* the mapper of a parallel_dispatch call settles once all its dispatches have
FanOutSettles(i) ==
    /\ agPc = "tools"
    /\ i \in 1..Len(functionResponses)
    /\ functionResponses[i] = Running
    /\ IsFanOut(agent, response.functionCalls[i])
    /\ \A k \in 1..Len(dispatchResults[i]) : dispatchResults[i][k].status # "RUNNING"
    /\ functionResponses' = [functionResponses EXCEPT
          ![i] = AggregateDispatch(response.functionCalls[i], i, dispatchResults[i])]
    /\ UNCHANGED <<agent, agPc, turns, response, dispatchResults, callFault,
                   dispatchFault, sent, agResult, toolTurns, onlyToolCalls,
                   toolFault, toolRuns>>
    /\ UNCHANGED <<retryVars, memVars, routerVars, extVars>>

\* the mapper of any other call settles: mcpClient.callTool returned or
\* raised (the backend behaving as wire), or reading the arguments faulted
CallSettles(i, wire) ==
    /\ agPc = "tools"
    /\ i \in 1..Len(functionResponses)
    /\ functionResponses[i] = Running
    /\ ~IsFanOut(agent, response.functionCalls[i])
    /\ LET call == response.functionCalls[i]
           t == FirstMatch(connections, call.name)
           r == CallToolResult(connections, call.name, wire)
           fr == CallResponse(agent, call, i, r)
       IN  /\ IF t = 0 \/ ArgsFault(agent, call)
                THEN wire = "ok"
                ELSE wire \in WireOf(connections[t].transport.kind)
           /\ toolRuns' = IF Executed(t, wire) /\ ~ArgsFault(agent, call)
                            THEN RecordRun(toolRuns, call.name, rtCalls)
                            ELSE toolRuns
           /\ IF fr.kind = "abort"
                THEN /\ agPc' = "failed"
                     /\ toolFault' = TRUE
                     /\ RetryCatch(ToolFault)
                     /\ UNCHANGED <<functionResponses, callFault>>
                ELSE /\ functionResponses' = [functionResponses EXCEPT ![i] = fr]
                     /\ callFault' = [callFault EXCEPT
                                         ![i] = CallFails(agent, call, r)]
                     /\ UNCHANGED <<agPc, toolFault, retryVars>>
    /\ UNCHANGED <<agent, turns, response, dispatchResults, dispatchFault, sent,
                   agResult, toolTurns, onlyToolCalls>>
    /\ UNCHANGED <<memVars, routerVars, extVars>>

\* Promise.all has resolved: the function responses are sent to the provider
SendFollowUp ==
    /\ agPc = "tools"
    /\ JoinReady(functionResponses)
    /\ sent' = functionResponses
    /\ agPc' = "sending"
    /\ toolTurns' = toolTurns + 1
    /\ UNCHANGED <<agent, turns, response, functionResponses, dispatchResults,
                   callFault, dispatchFault, agResult, onlyToolCalls, toolFault, toolRuns>>
    /\ UNCHANGED <<retryVars, memVars, routerVars, extVars>>

\* the backoff delay after a rate-limited run has elapsed: the body runs again
AgentBackoffElapsed ==
    /\ agent # "none"
    /\ RetryContinue
    /\ BodyBegins
    /\ UNCHANGED <<agent, toolRuns>>
    /\ UNCHANGED <<memVars, routerVars, extVars>>

----------------------------------------------------------------------------
(* LuxorMcpServer behind InternalTransport *)

\* the six methods of the switch in handleMessage
Methods == {"tools/list", "tools/call", "resources/list", "resources/read",
            "prompts/list", "prompts/get"}

\* methods a request may carry: the six known ones and one that is not
RequestMethods == Methods \cup {"ping"}

RequestIds == {1, 2}

\* registered names, abridged: two of the tools, the resource, the prompt
ServerTools == {"deploy_container", "save_memory"}
ServerResources == {"luxor9://core/system-instruction"}
ServerPrompts == {"analyze-image"}

\* request.params: undefined, or an object whose name / uri is Key
NoParams == [present |-> FALSE, key |-> "undefined"]
ParamKeys == {"deploy_container", "luxor9://core/system-instruction",
              "analyze-image", "unknown"}
Params == {NoParams} \cup {[present |-> TRUE, key |-> k] : k \in ParamKeys}

Requests == [id : RequestIds, method : RequestMethods, params : Params]

\* what a registered handler or reader does when invoked: resolves with
\* content, resolves with an isError result, or raises
HandlerOutcomes == {"content", "isError", "throws"}

NoValue == [shape |-> "undefined", isError |-> FALSE, text |-> "undefined"]
Value(shape, isError, text) == [shape |-> shape, isError |-> isError, text |-> text]

\* completion of a piece of code: it returns a value or throws a message
Returned(v) == [kind |-> "return", value |-> v, message |-> "undefined"]
Thrown(m) == [kind |-> "throw", value |-> NoValue, message |-> m]

\* mcpServer.ts callTool with the handler fault propagated
ServerCallToolRethrows(name, handler) ==
    IF name \notin ServerTools
      THEN Returned(Value("callToolResult", TRUE, "Tool not found."))
    ELSE IF handler = "throws" THEN Thrown("handler fault")
    ELSE Returned(Value("callToolResult", handler = "isError", "content"))

\* LuxorMcpServer.callTool(name, args)
ServerCallTool(name, handler) ==
    IF name \notin ServerTools
      THEN Returned(Value("callToolResult", TRUE, "Tool not found."))
    ELSE IF handler = "throws"
      THEN Returned(Value("callToolResult", TRUE, "Fault: handler fault"))
    ELSE Returned(Value("callToolResult", handler = "isError", "content"))

\* LuxorMcpServer.readResource(uri): no failure boundary around the reader
ReadResource(uri, handler) ==
    IF uri \notin ServerResources THEN Returned(Value("contents", FALSE, "[]"))
    ELSE IF handler = "throws" THEN Thrown("reader fault")
    ELSE Returned(Value("contents", FALSE, "content"))

\* LuxorMcpServer.getPrompt(name, args)
GetPrompt(name, handler) ==
    IF name \notin ServerPrompts THEN Thrown("Prompt missing")
    ELSE IF handler = "throws" THEN Thrown("handler fault")
    ELSE Returned(Value("messages", FALSE, "content"))

\* reading request.params.name on an undefined params
ParamsFault == Thrown("TypeError: params is undefined")

\* the switch of handleMessage
Dispatch(request, handler) ==
    CASE request.method = "tools/list" -> Returned(Value("tools", FALSE, "catalog"))
      [] request.method = "tools/call" ->
            IF request.params.present
              THEN ServerCallTool(request.params.key, handler) ELSE ParamsFault
      [] request.method = "resources/list" ->
            Returned(Value("resources", FALSE, "catalog"))
      [] request.method = "resources/read" ->
            IF request.params.present
              THEN ReadResource(request.params.key, handler) ELSE ParamsFault
      [] request.method = "prompts/list" ->
            Returned(Value("prompts", FALSE, "catalog"))
      [] request.method = "prompts/get" ->
            IF request.params.present
              THEN GetPrompt(request.params.key, handler) ELSE ParamsFault
      [] OTHER -> Thrown("Method not found")

\* the code of every error envelope
MethodNotFoundCode == -32601

NoRpcError == [code |-> 0, message |-> "undefined"]
NoEnvelope == [id |-> 0, hasResult |-> FALSE, result |-> NoValue,
               hasError |-> FALSE, error |-> NoRpcError]

ResultEnvelope(id, value) ==
    [id |-> id, hasResult |-> TRUE, result |-> value,
     hasError |-> FALSE, error |-> NoRpcError]

\* an error envelope that also carries a result member
ErrorEnvelopeWithResult(id, message) ==
    [id |-> id, hasResult |-> TRUE, result |-> NoValue, hasError |-> TRUE,
     error |-> [code |-> MethodNotFoundCode, message |-> message]]

\* mcpServer.ts handleMessage, the envelope of the catch branch
ErrorEnvelope(id, message) ==
    [id |-> id, hasResult |-> FALSE, result |-> NoValue, hasError |-> TRUE,
     error |-> [code |-> MethodNotFoundCode,
                message |-> IF message = "" THEN "Internal server error"
                            ELSE message]]

\* completion of a send: the envelope it resolved with, or the fault raised
Resolved(envelope) == [raised |-> "none", response |-> envelope]
Rejected(message) == [raised |-> message, response |-> NoEnvelope]

\* handleMessage without its catch branch
HandleMessageUncaught(request, handler) ==
    LET o == Dispatch(request, handler)
    IN  IF o.kind = "return" THEN Resolved(ResultEnvelope(request.id, o.value))
        ELSE Rejected(o.message)

\* LuxorMcpServer.handleMessage(request)
HandleMessage(request, handler) ==
    LET o == Dispatch(request, handler)
    IN  IF o.kind = "return" THEN Resolved(ResultEnvelope(request.id, o.value))
        ELSE Resolved(ErrorEnvelope(request.id, o.message))

\* whether the request reaches a registered handler or reader
ReachesHandler(request) ==
    /\ request.params.present
    /\ \/ request.method = "tools/call" /\ request.params.key \in ServerTools
       \/ request.method = "resources/read" /\ request.params.key \in ServerResources
       \/ request.method = "prompts/get" /\ request.params.key \in ServerPrompts

NoRequest == [id |-> 0, method |-> "none", params |-> NoParams]

InitServer ==
    /\ srvConnected = FALSE
    /\ srvRequest = NoRequest
    /\ srvResponse = NoEnvelope
    /\ srvRaised = "none"
    /\ srvHandler = "none"

\* InternalTransport.start()
InternalStart ==
    /\ srvConnected' = TRUE
    /\ UNCHANGED <<srvRequest, srvResponse, srvRaised, srvHandler>>
    /\ UNCHANGED <<uiVars, retryVars, memVars, routerVars, agentVars, sseVars, searchVars>>

\* InternalTransport.close()
InternalClose ==
    /\ srvConnected' = FALSE
    /\ UNCHANGED <<srvRequest, srvResponse, srvRaised, srvHandler>>
    /\ UNCHANGED <<uiVars, retryVars, memVars, routerVars, agentVars, sseVars, searchVars>>

\* InternalTransport.send(message)
InternalSend(request, handler) ==
    /\ handler \in HandlerOutcomes
    /\ ~(srvConnected /\ ReachesHandler(request)) => handler = "content"
    /\ LET done == IF srvConnected THEN HandleMessage(request, handler)
                   ELSE Rejected("Internal Transport not connected")
       IN  /\ srvResponse' = done.response
           /\ srvRaised' = done.raised
    /\ srvRequest' = request
    /\ srvHandler' = IF srvConnected /\ ReachesHandler(request) THEN handler
                     ELSE "none"
    /\ UNCHANGED srvConnected
    /\ UNCHANGED <<uiVars, retryVars, memVars, routerVars, agentVars, sseVars, searchVars>>

----------------------------------------------------------------------------
(* SseTransport *)

\* what the POST of send() meets: a 2xx answer with a JSON body, a non-2xx
\* answer, a network failure of fetch, a body that is not JSON
PostOutcomes == {"ok", "httpError", "networkError", "badJson"}

NoSend == [issued |-> FALSE, target |-> "none", negotiated |-> FALSE,
           raised |-> "none"]

InitSse ==
    /\ esState = "none"
    /\ sseConnected = FALSE
    /\ eventSource = FALSE
    /\ postEndpoint = FALSE
    /\ startPc = "idle"
    /\ endpointSeen = FALSE
    /\ sseStarts = 0
    /\ lostAt = 0
    /\ sseLastSend = NoSend

\* SseTransport.close(): the fields after it ran on a transport whose
\* this.eventSource is (not) set and whose EventSource is in state es
Closed(es, hasEventSource) ==
    [esState |-> IF hasEventSource THEN "closed" ELSE es,
     sseConnected |-> FALSE, eventSource |-> FALSE]

\* es.onerror without the call of close(): the browser goes on retrying
ErrorKeepsChannel(es, connected, hasEventSource, fatal) ==
    [esState |-> IF fatal THEN "closed" ELSE "connecting",
     sseConnected |-> connected, eventSource |-> hasEventSource]

\* es.onerror: the EventSource has failed for good (fatal) or is about to
\* retry; the handler then calls this.close()
AfterError(es, connected, hasEventSource, fatal) ==
    Closed(IF fatal THEN "closed" ELSE "connecting", hasEventSource)

\* start() up to the construction of the EventSource; the transport is
\* started when it has no live EventSource
SseStart ==
    /\ esState \in {"none", "closed"}
    /\ startPc # "pending"
    /\ sseStarts < MaxStarts
    /\ esState' = "connecting"
    /\ startPc' = "pending"
    /\ endpointSeen' = FALSE
    /\ sseStarts' = sseStarts + 1
    /\ sseLastSend' = NoSend
    /\ UNCHANGED <<sseConnected, eventSource, postEndpoint, lostAt>>
    /\ UNCHANGED <<uiVars, retryVars, memVars, routerVars, agentVars, serverVars, searchVars>>

\* start() when `new EventSource(url)` throws: catch, reject(err)
SseStartThrows ==
    /\ esState \in {"none", "closed"}
    /\ startPc # "pending"
    /\ sseStarts < MaxStarts
    /\ startPc' = "rejected"
    /\ endpointSeen' = FALSE
    /\ sseStarts' = sseStarts + 1
    /\ sseLastSend' = NoSend
    /\ UNCHANGED <<esState, sseConnected, eventSource, postEndpoint, lostAt>>
    /\ UNCHANGED <<uiVars, retryVars, memVars, routerVars, agentVars, serverVars, searchVars>>

\* es.onopen
EsOpen ==
    /\ esState = "connecting"
    /\ esState' = "open"
    /\ sseConnected' = TRUE
    /\ eventSource' = TRUE
    /\ startPc' = IF startPc = "pending" THEN "resolved" ELSE startPc
    /\ UNCHANGED <<postEndpoint, endpointSeen, sseStarts, lostAt, sseLastSend>>
    /\ UNCHANGED <<uiVars, retryVars, memVars, routerVars, agentVars, serverVars, searchVars>>

\* es.onerror
EsError(fatal) ==
    /\ esState \in {"connecting", "open"}
    /\ esState = "open" => fatal
    /\ startPc' = IF ~sseConnected /\ startPc = "pending" THEN "rejected"
                  ELSE startPc
    /\ LET after == AfterError(esState, sseConnected, eventSource, fatal)
       IN  /\ esState' = after.esState
           /\ sseConnected' = after.sseConnected
           /\ eventSource' = after.eventSource
    /\ lostAt' = IF sseConnected THEN sseStarts ELSE lostAt
    /\ UNCHANGED <<postEndpoint, endpointSeen, sseStarts, sseLastSend>>
    /\ UNCHANGED <<uiVars, retryVars, memVars, routerVars, agentVars, serverVars, searchVars>>

\* the 'endpoint' event
EsEndpoint ==
    /\ esState = "open"
    /\ postEndpoint' = TRUE
    /\ endpointSeen' = TRUE
    /\ UNCHANGED <<esState, sseConnected, eventSource, startPc, sseStarts, lostAt,
                   sseLastSend>>
    /\ UNCHANGED <<uiVars, retryVars, memVars, routerVars, agentVars, serverVars, searchVars>>

\* close() called by the owner of the transport
SseClose ==
    /\ LET after == Closed(esState, eventSource)
       IN  /\ esState' = after.esState
           /\ sseConnected' = after.sseConnected
           /\ eventSource' = after.eventSource
    /\ UNCHANGED <<postEndpoint, startPc, endpointSeen, sseStarts, lostAt,
                   sseLastSend>>
    /\ UNCHANGED <<uiVars, retryVars, memVars, routerVars, agentVars, serverVars, searchVars>>

\* where send() posts: this.postEndpoint || this.endpoint
TargetUrl(hasPostEndpoint) == IF hasPostEndpoint THEN "postEndpoint" ELSE "endpoint"

\* send(message) against a backend answering as wire
SendResult(connected, hasPostEndpoint, seen, wire) ==
    IF ~connected
      THEN [issued |-> FALSE, target |-> "none", negotiated |-> seen,
            raised |-> "SSE Transport not connected"]
      ELSE [issued |-> TRUE, target |-> TargetUrl(hasPostEndpoint),
            negotiated |-> seen,
            raised |-> CASE wire = "httpError" -> "MCP POST failed"
                         [] wire = "networkError" -> "TypeError: fetch failed"
                         [] wire = "badJson" -> "SyntaxError"
                         [] OTHER -> "none"]

SseSend(wire) ==
    /\ ~sseConnected => wire = "ok"
    /\ sseLastSend' = SendResult(sseConnected, postEndpoint, endpointSeen, wire)
    /\ UNCHANGED <<esState, sseConnected, eventSource, postEndpoint, startPc,
                   endpointSeen, sseStarts, lostAt>>
    /\ UNCHANGED <<uiVars, retryVars, memVars, routerVars, agentVars, serverVars, searchVars>>

----------------------------------------------------------------------------
(* MemoryService: similarity search *)

\* embeddings of stored nodes and of queries: vectors of one dimension, the
\* zero vector among them, and one vector of another dimension
Embeddings == {<<1, 0>>, <<0, 1>>, <<1, 1>>, <<2, 1>>, <<-1, 0>>, <<0, 0>>, <<1>>}

\* arguments of cosineSimilarity
Vectors == Embeddings \cup {<<>>, <<0>>}

\* getEmbedding returned null, or was not asked; kept as the empty tuple,
\* which is not one of the Embeddings
NoEmbedding == <<>>

\* a similarity dot / sqrt(mag2) is kept as the pair of dot and mag2, the
\* product of the two squared magnitudes; a number when mag2 > 0, the
\* outcome of 0 / 0 (NaN) when mag2 = 0
Similarity(dot, mag2) == [num |-> dot, den2 |-> mag2]
Zero == Similarity(0, 1)

\* minSimilarity arguments as fractions: 0, the default 0.6, 1
MinSimilarities == {[num |-> 0, den |-> 1], [num |-> 3, den |-> 5],
                    [num |-> 1, den |-> 1]}

RECURSIVE DotProduct(_, _)
DotProduct(vecA, vecB) ==
    IF vecA = <<>> THEN 0
    ELSE Head(vecA) * Head(vecB) + DotProduct(Tail(vecA), Tail(vecB))

\* memoryService.ts:69-70 without the test of the magnitude
QuotientUnguarded(dot, magA, magB) == Similarity(dot, magA * magB)

\* memoryService.ts:69-70 -- magnitude === 0 ? 0 : dotProduct / magnitude
Quotient(dot, magA, magB) ==
    IF magA * magB = 0 THEN Zero ELSE Similarity(dot, magA * magB)

\* MemoryService.cosineSimilarity(vecA, vecB)
CosineSimilarity(vecA, vecB) ==
    IF Len(vecA) # Len(vecB) THEN Zero
    ELSE Quotient(DotProduct(vecA, vecB), DotProduct(vecA, vecA),
                  DotProduct(vecB, vecB))

\* ---- the same function on JavaScript numbers ----
\* A number is binary floating point: Math.sqrt, * and / each round their
\* exact result to the nearest number of MantissaBits significant bits, ties
\* to even.  A positive number is kept as m * 2^e with
\* 2^(MantissaBits-1) <= m < 2^MantissaBits.  The sums of products of the
\* small integer components used here are below 2^MantissaBits and exact.

Float(sign, m, e) == [sign |-> sign, m |-> m, e |-> e]
FloatZero == Float(0, 0, 0)
FloatOne == Float(1, Pow2(MantissaBits - 1), 1 - MantissaBits)

\* the number nearest to n * 2^e, for an integer n >= 0
RECURSIVE Round(_, _)
Round(n, e) ==
    IF n = 0 THEN FloatZero
    ELSE IF n < Pow2(MantissaBits - 1) THEN Round(2 * n, e - 1)
    ELSE IF n < Pow2(MantissaBits) THEN Float(1, n, e)
    ELSE LET k == CHOOSE k \in 1..(2 * MantissaBits) :
                     n < Pow2(MantissaBits + k) /\ n >= Pow2(MantissaBits + k - 1)
             q == n \div Pow2(k)
             r == n % Pow2(k)
             up == 2 * r > Pow2(k) \/ (2 * r = Pow2(k) /\ q % 2 = 1)
         IN  Round(IF up THEN q + 1 ELSE q, e + k)

\* Math.sqrt(n) for an integer 0 <= n < 4^MantissaBits: n is scaled by 4^j
\* into [4^(MantissaBits-1), 4^MantissaBits) and m is the integer nearest
\* to the root of the scaled value
Sqrt(n) ==
    IF n = 0 THEN FloatZero
    ELSE LET j == CHOOSE j \in 0..MantissaBits :
                     /\ n * Pow2(2 * j) >= Pow2(2 * MantissaBits - 2)
                     /\ n * Pow2(2 * j) < Pow2(2 * MantissaBits)
             y == n * Pow2(2 * j)
             m == CHOOSE m \in Pow2(MantissaBits - 1)..Pow2(MantissaBits) :
                     /\ (2 * m - 1) * (2 * m - 1) < 4 * y
                     /\ 4 * y < (2 * m + 1) * (2 * m + 1)
         IN  Round(m, 0 - j)

\* x * y
Times(x, y) == Round(x.m * y.m, x.e + y.e)

\* d / x for an integer d > 0 and a number x > 0 with d < 2^MantissaBits * x:
\* d is scaled by 2^t so that the quotient by x.m has MantissaBits bits
Divide(d, x) ==
    LET t == CHOOSE t \in 0..(2 * MantissaBits) :
                /\ d * Pow2(t) >= x.m * Pow2(MantissaBits - 1)
                /\ t > 0 => d * Pow2(t - 1) < x.m * Pow2(MantissaBits - 1)
        q == (d * Pow2(t)) \div x.m
        r == (d * Pow2(t)) % x.m
        up == 2 * r > x.m \/ (2 * r = x.m /\ q % 2 = 1)
    IN  Round(IF up THEN q + 1 ELSE q, 0 - t - x.e)

\* memoryService.ts:69-70 -- Math.sqrt(magA) * Math.sqrt(magB), then
\* magnitude === 0 ? 0 : dotProduct / magnitude
QuotientNumber(dot, magA, magB) ==
    LET magnitude == Times(Sqrt(magA), Sqrt(magB))
    IN  IF magnitude.m = 0 \/ dot = 0 THEN FloatZero
        ELSE LET q == Divide(IF dot < 0 THEN 0 - dot ELSE dot, magnitude)
             IN  Float(IF dot < 0 THEN -1 ELSE 1, q.m, q.e)

\* MemoryService.cosineSimilarity(vecA, vecB), the number it returns
CosineSimilarityNumber(vecA, vecB) ==
    IF Len(vecA) # Len(vecB) THEN FloatZero
    ELSE QuotientNumber(DotProduct(vecA, vecB), DotProduct(vecA, vecA),
                        DotProduct(vecB, vecB))

\* x.num / sqrt(x.den2) >= y.num / sqrt(y.den2), compared by sign and squares
SimGeq(x, y) ==
    LET l == x.num * x.num * y.den2
        r == y.num * y.num * x.den2
    IN  IF x.num >= 0 /\ y.num < 0 THEN TRUE
        ELSE IF x.num < 0 /\ y.num >= 0 THEN FALSE
        ELSE IF x.num >= 0 THEN l >= r
        ELSE l <= r

\* mem.relevance >= minSimilarity
AtLeast(x, minSimilarity) ==
    SimGeq(x, Similarity(minSimilarity.num, minSimilarity.den * minSimilarity.den))

\* a stored node with its embedding
MemoryNode(id, embedding) ==
    [id |-> id, timestamp |-> 0, isPinned |-> FALSE, embedding |-> embedding]

\* stores of up to MaxStore nodes with unique ids
Stores ==
    UNION {{[i \in 1..n |-> MemoryNode(i, e[i])] : e \in [1..n -> Embeddings]} :
             n \in 0..MaxStore}

\* the same stores after togglePin of their first node
PinnedStores == {[mems EXCEPT ![1].isPinned = TRUE] : mems \in Stores \ {<<>>}}

\* memoryService.ts:128-131 -- {...mem, relevance}
Scored(mem, queryEmbedding) ==
    [id |-> mem.id, isPinned |-> mem.isPinned, embedding |-> mem.embedding,
     relevance |-> CosineSimilarity(queryEmbedding, mem.embedding)]

\* insertion of x into a sequence sorted by relevance descending, after
\* every element that does not sort after it (keeps the sort stable)
RECURSIVE InsertByRelevance(_, _)
InsertByRelevance(x, s) ==
    IF s = <<>> THEN <<x>>
    ELSE IF SimGeq(Head(s).relevance, x.relevance)
           THEN <<Head(s)>> \o InsertByRelevance(x, Tail(s))
           ELSE <<x>> \o s

\* Array.prototype.sort((a, b) => b.relevance - a.relevance), a stable sort
RECURSIVE SortByRelevanceDesc(_)
SortByRelevanceDesc(s) ==
    IF s = <<>> THEN <<>>
    ELSE InsertByRelevance(s[Len(s)],
                           SortByRelevanceDesc(SubSeq(s, 1, Len(s) - 1)))

\* memoryService.ts:121-144 with the sort left out
SearchUnsorted(mems, queryEmbedding, limit, minSimilarity) ==
    IF mems = <<>> \/ queryEmbedding = NoEmbedding THEN <<>>
    ELSE LET scored == [i \in 1..Len(mems) |-> Scored(mems[i], queryEmbedding)]
             relevant(mem) == AtLeast(mem.relevance, minSimilarity)
         IN  Slice0(SelectSeq(scored, relevant), limit)

\* MemoryService.search(query, limit, minSimilarity) when getEmbedding(query)
\* yields queryEmbedding
SearchResults(mems, queryEmbedding, limit, minSimilarity) ==
    IF mems = <<>> \/ queryEmbedding = NoEmbedding THEN <<>>
    ELSE LET scored == [i \in 1..Len(mems) |-> Scored(mems[i], queryEmbedding)]
             relevant(mem) == AtLeast(mem.relevance, minSimilarity)
         IN  Slice0(SortByRelevanceDesc(SelectSeq(scored, relevant)), limit)

\* geminiService.ts:82 -- memoryService.search(prompt, 3)
ContextLimit == 3
\* memoryService.ts:121 -- minSimilarity = 0.6
DefaultMinSimilarity == [num |-> 3, den |-> 5]

Ids(s) == [i \in 1..Len(s) |-> s[i].id]

NoContext == [built |-> FALSE, raised |-> FALSE, pinned |-> <<>>, relevant |-> <<>>]

\* a context builder through which a missing embedding propagates as a fault
ContextRaises(mems, queryEmbedding) ==
    IF mems # <<>> /\ queryEmbedding = NoEmbedding
      THEN [built |-> FALSE, raised |-> TRUE, pinned |-> <<>>, relevant |-> <<>>]
      ELSE [built |-> TRUE, raised |-> FALSE,
            pinned |-> Ids(SelectSeq(mems, IsPinned)),
            relevant |-> Ids(SelectSeq(SearchResults(mems, queryEmbedding,
                                 ContextLimit, DefaultMinSimilarity), IsUnpinned))]

\* geminiService.ts:70-95 -- the pinned nodes, then the unpinned ones among
\* the results of search(prompt, 3); getEmbedding yields queryEmbedding, null
\* (NoEmbedding) when the embedding call fails (lines 52-62)
BuildContextualSystemInstruction(mems, queryEmbedding) ==
    LET pinned == SelectSeq(mems, IsPinned)
        relevant == SearchResults(mems, queryEmbedding, ContextLimit,
                                  DefaultMinSimilarity)
        relevantUnpinned == SelectSeq(relevant, IsUnpinned)
    IN  [built |-> TRUE, raised |-> FALSE, pinned |-> Ids(pinned),
         relevant |-> Ids(relevantUnpinned)]

NoSearch == [asked |-> FALSE, queryEmbedding |-> NoEmbedding, limit |-> 0,
             minSimilarity |-> [num |-> 0, den |-> 1]]
NoSimilarity == [asked |-> FALSE, vecA |-> <<>>, vecB |-> <<>>]

InitSearch ==
    /\ searchArgs = NoSearch
    /\ searchResult = <<>>
    /\ simArgs = NoSimilarity
    /\ simResult = Zero
    /\ simNumber = FloatZero
    /\ context = NoContext
    /\ ctxPc = "none"

\* search and cosineSimilarity change no field of the service: a behaviour
\* makes one call, on the store it starts with
NoCallYet == ~searchArgs.asked /\ ~simArgs.asked

Search(queryEmbedding, limit, minSimilarity) ==
    /\ NoCallYet
    /\ memories = <<>> => queryEmbedding = NoEmbedding
    /\ searchArgs' = [asked |-> TRUE, queryEmbedding |-> queryEmbedding,
                      limit |-> limit, minSimilarity |-> minSimilarity]
    /\ searchResult' = SearchResults(memories, queryEmbedding, limit, minSimilarity)
    /\ simArgs' = NoSimilarity
    /\ simResult' = Zero
    /\ simNumber' = FloatZero
    /\ UNCHANGED <<context, ctxPc>>
    /\ UNCHANGED <<uiVars, retryVars, memVars, routerVars, agentVars, serverVars, sseVars>>

CosineSimilarityCall(vecA, vecB) ==
    /\ NoCallYet
    /\ simArgs' = [asked |-> TRUE, vecA |-> vecA, vecB |-> vecB]
    /\ simResult' = CosineSimilarity(vecA, vecB)
    /\ simNumber' = CosineSimilarityNumber(vecA, vecB)
    /\ searchArgs' = NoSearch
    /\ searchResult' = <<>>
    /\ UNCHANGED <<context, ctxPc>>
    /\ UNCHANGED <<uiVars, retryVars, memVars, routerVars, agentVars, serverVars, sseVars>>

\* geminiService.ts:120 -- runOverseerAgent builds the system instruction
\* from the store, the embedding call of its search yielding queryEmbedding,
\* and goes on to chat.sendMessage (line 138) unless the builder raised
ContextInjection(queryEmbedding) ==
    /\ NoCallYet
    /\ memories = <<>> => queryEmbedding = NoEmbedding
    /\ LET c == BuildContextualSystemInstruction(memories, queryEmbedding)
       IN  /\ context' = c
           /\ ctxPc' = IF c.raised THEN "rejected" ELSE "sendMessage"
    /\ searchArgs' = [asked |-> TRUE, queryEmbedding |-> queryEmbedding,
                      limit |-> ContextLimit,
                      minSimilarity |-> DefaultMinSimilarity]
    /\ searchResult' = SearchResults(memories, queryEmbedding, ContextLimit,
                                     DefaultMinSimilarity)
    /\ UNCHANGED <<simArgs, simResult, simNumber>>
    /\ UNCHANGED <<uiVars, retryVars, memVars, routerVars, agentVars, serverVars, sseVars>>

----------------------------------------------------------------------------
(* RealtimeMcpRouter: the key manager *)

\* a key is a string, kept as the sequence of its characters
HfKey == <<"h", "f", "_", "a">>
SkKey == <<" ", "s", "k", "-", "b">>
GenericKey == <<"A", "I", "z", "a">>
ProfileKeys == {HfKey, SkKey, GenericKey}

\* an undefined environment variable, or an empty one
Undefined == <<>>
\* the null getSmartKey returns
Null == <<"null">>

\* String.prototype.trim: leading and trailing blanks removed
RECURSIVE TrimStart(_)
TrimStart(str) ==
    IF str # <<>> /\ Head(str) = " " THEN TrimStart(Tail(str)) ELSE str

RECURSIVE TrimEnd(_)
TrimEnd(str) ==
    IF str # <<>> /\ str[Len(str)] = " "
      THEN TrimEnd(SubSeq(str, 1, Len(str) - 1)) ELSE str

Trim(str) == TrimEnd(TrimStart(str))

\* String.prototype.startsWith
StartsWith(str, prefix) ==
    Len(str) >= Len(prefix) /\ SubSeq(str, 1, Len(prefix)) = prefix

HfPrefix == <<"h", "f", "_">>
SkPrefix == <<"s", "k", "-">>

\* McpPlatform (types.ts:18)
Platforms == {"google", "vertex", "openai", "anthropic", "xai", "deepseek",
              "huggingface", "replicate", "custom"}
\* the platforms profiles are added with, and those a key is asked for
AddPlatforms == {"google", "openai", "huggingface", "anthropic"}
AskPlatforms == {"google", "vertex", "openai", "huggingface", "anthropic", "custom"}

EnvNames == {"HF_TOKEN", "HUGGING_FACE_TOKEN", "OPENAI_API_KEY",
             "ANTHROPIC_API_KEY", "REPLICATE_API_TOKEN", "API_KEY",
             "GOOGLE_API_KEY", "GEMINI_API_KEY", "XAI_API_KEY",
             "DEEPSEEK_API_KEY"}
NoVars == [n \in EnvNames |-> Undefined]
\* the environments of the model: process.env by name, import.meta.env by
\* the name after VITE_
Envs ==
    { [process |-> NoVars, meta |-> NoVars],
      [process |-> [NoVars EXCEPT !["GEMINI_API_KEY"] = <<"e", "1">>],
       meta |-> [NoVars EXCEPT !["GOOGLE_API_KEY"] = <<"e", "2">>]],
      [process |-> [NoVars EXCEPT !["HUGGING_FACE_TOKEN"] = <<"e", "3">>,
                                  !["OPENAI_API_KEY"] = <<"e", "4">>],
       meta |-> [NoVars EXCEPT !["HF_TOKEN"] = <<"e", "5">>]] }

\* mcpRouter.ts:6-22
GetEnvVar(e, key) ==
    IF e.process[key] # Undefined THEN e.process[key]
    ELSE IF e.meta[key] # Undefined THEN e.meta[key]
    ELSE Undefined

\* a || b on strings that may be undefined
Or(a, b) == IF a # Undefined THEN a ELSE b

\* mcpRouter.ts:71-98 -- the environment variable of the platform
EnvKey(e, platform) ==
    CASE platform = "huggingface" ->
            Or(GetEnvVar(e, "HF_TOKEN"), GetEnvVar(e, "HUGGING_FACE_TOKEN"))
      [] platform = "openai" -> GetEnvVar(e, "OPENAI_API_KEY")
      [] platform = "anthropic" -> GetEnvVar(e, "ANTHROPIC_API_KEY")
      [] platform = "replicate" -> GetEnvVar(e, "REPLICATE_API_TOKEN")
      [] platform \in {"google", "vertex"} ->
            Or(GetEnvVar(e, "API_KEY"),
               Or(GetEnvVar(e, "GOOGLE_API_KEY"), GetEnvVar(e, "GEMINI_API_KEY")))
      [] platform = "xai" -> GetEnvVar(e, "XAI_API_KEY")
      [] platform = "deepseek" -> GetEnvVar(e, "DEEPSEEK_API_KEY")
      [] OTHER -> Undefined

\* mcpRouter.ts:104-121 -- the key-prefix heuristics
PatternMatch(profs, platform) ==
    LET isHf(p) == StartsWith(Trim(p.key), HfPrefix)
        isSk(p) == StartsWith(Trim(p.key), SkPrefix)
        isActive(p) == p.isActive
        hfMatch == SelectSeq(profs, isHf)
        skMatch == SelectSeq(profs, isSk)
        activeGeneric == SelectSeq(profs, isActive)
    IN  IF platform = "huggingface" /\ hfMatch # <<>> THEN Head(hfMatch).key
        ELSE IF platform = "openai" /\ skMatch # <<>> THEN Head(skMatch).key
        ELSE IF /\ platform = "google"
                /\ activeGeneric # <<>>
                /\ ~StartsWith(Head(activeGeneric).key, HfPrefix)
                /\ ~StartsWith(Head(activeGeneric).key, SkPrefix)
               THEN Head(activeGeneric).key
        ELSE Null

\* a getSmartKey that tries the saved profiles before the environment
GetSmartKeySavedFirst(profs, e, platform) ==
    LET isActiveMatch(p) == p.isActive /\ p.platform = platform
        isSpecific(p) == p.platform = platform
        active == SelectSeq(profs, isActiveMatch)
        specific == SelectSeq(profs, isSpecific)
    IN  IF active # <<>> THEN Head(active).key
        ELSE IF specific # <<>> THEN Head(specific).key
        ELSE IF EnvKey(e, platform) # Undefined THEN EnvKey(e, platform)
        ELSE PatternMatch(profs, platform)

\* mcpRouter.ts:66-124
GetSmartKey(profs, e, platform) ==
    LET isActiveMatch(p) == p.isActive /\ p.platform = platform
        isSpecific(p) == p.platform = platform
        active == SelectSeq(profs, isActiveMatch)
        specific == SelectSeq(profs, isSpecific)
    IN  IF active # <<>> THEN Head(active).key
        ELSE IF EnvKey(e, platform) # Undefined THEN EnvKey(e, platform)
        ELSE IF specific # <<>> THEN Head(specific).key
        ELSE PatternMatch(profs, platform)

NoKeyAsked == [asked |-> FALSE, platform |-> "none", key |-> Null]

\* ---- AgentWorkstation: handleSend ----

\* texts of the input box, as character sequences
Texts == {<<>>, <<" ">>, <<"h", "i">>}

UserMsg(text) == [role |-> "user", text |-> text]
BotMsg == [role |-> "model", text |-> <<"ok">>]
\* AgentWorkstation.tsx:316 -- `System Fault: ${e.message}`
FaultMsg(e) == [role |-> "model", text |-> <<"System", "Fault:">> \o e.message]

\* the failures of the awaited agent call
ChatErrors == {RateLimited, ProviderDown, CredentialMissing}

\* AgentWorkstation.tsx:250 -- the guard of handleSend, for an agent that
\* needs a prompt
Ignored(text, attached, generating) ==
    (Trim(text) = <<>> /\ ~attached) \/ generating

\* a catch block that logs the fault and lets it go
CatchLogsOnly(prev, e) == [messages |-> prev, escaped |-> FALSE]

\* AgentWorkstation.tsx:315-317 -- setMessages(prev => [...prev, fault])
Catch(prev, e) == [messages |-> Append(prev, FaultMsg(e)), escaped |-> FALSE]

InitChat ==
    /\ messages = <<>>
    /\ isChatGenerating = FALSE
    /\ chatPc = "idle"
    /\ chatSends = 0
    /\ chatPre = <<>>
    /\ chatOutcome = "none"
    /\ chatEscaped = FALSE
    /\ chatStale = 0

\* handleSend returns at its guard
HandleSendIgnored(text, attached) ==
    /\ Ignored(text, attached, isChatGenerating)
    /\ chatOutcome' = "ignored"
    /\ UNCHANGED <<messages, isChatGenerating, chatPc, chatSends, chatPre,
                   chatEscaped, chatStale>>
    /\ UNCHANGED <<keyVars, boardVars, retryVars, memVars, routerVars,
                   agentVars, serverVars, sseVars, searchVars, videoVars>>

\* handleSend up to the await of the agent call, which withRetry wraps
HandleSend(text, attached) ==
    /\ ~Ignored(text, attached, isChatGenerating)
    /\ chatSends < MaxSends
    /\ chatSends' = chatSends + 1
    /\ chatPre' = messages
    /\ messages' = Append(messages, UserMsg(text))
    /\ isChatGenerating' = TRUE
    /\ chatPc' = "awaiting"
    /\ chatOutcome' = "none"
    /\ chatEscaped' = FALSE
    /\ chatStale' = IF chatPc = "awaiting" THEN chatStale + 1 ELSE chatStale
    /\ rtPc' = "calling"
    /\ rtMaxRetries' = DefaultMaxRetries
    /\ rtInitialDelay' = DefaultInitialDelay
    /\ retries' = 0
    /\ rtCalls' = 1
    /\ rtLog' = <<>>
    /\ rtSleeps' = 0
    /\ rtThrown' = NoError
    /\ rtBackoffs' = <<>>
    /\ rtDelay' = NoDelay
    /\ UNCHANGED <<keyVars, boardVars, memVars, routerVars, agentVars,
                   serverVars, sseVars, searchVars, videoVars>>

\* the agent call resolved: the answer is appended, then the finally block
HandleSendResolves ==
    /\ chatPc = "awaiting" /\ rtPc = "returned"
    /\ messages' = Append(messages, BotMsg)
    /\ isChatGenerating' = FALSE
    /\ chatPc' = "idle"
    /\ chatOutcome' = "sent"
    /\ UNCHANGED <<chatSends, chatPre, chatEscaped, chatStale>>
    /\ UNCHANGED <<keyVars, boardVars, retryVars, memVars, routerVars,
                   agentVars, serverVars, sseVars, searchVars, videoVars>>

\* the agent call rejected: the catch block, then the finally block
HandleSendCatch ==
    /\ chatPc = "awaiting" /\ rtPc = "thrown"
    /\ LET c == Catch(messages, rtThrown)
       IN  /\ messages' = c.messages
           /\ chatEscaped' = c.escaped
    /\ isChatGenerating' = FALSE
    /\ chatPc' = "idle"
    /\ chatOutcome' = "fault"
    /\ UNCHANGED <<chatSends, chatPre, chatStale>>
    /\ UNCHANGED <<keyVars, boardVars, retryVars, memVars, routerVars,
                   agentVars, serverVars, sseVars, searchVars, videoVars>>

\* the 'Stop Generation' button, shown while isChatGenerating
\* (AgentWorkstation.tsx:486-493): setIsChatGenerating(false), nothing else
StopGeneration ==
    /\ isChatGenerating
    /\ isChatGenerating' = FALSE
    /\ UNCHANGED <<messages, chatPc, chatSends, chatPre, chatOutcome,
                   chatEscaped, chatStale>>
    /\ UNCHANGED <<keyVars, boardVars, retryVars, memVars, routerVars,
                   agentVars, serverVars, sseVars, searchVars, videoVars>>

\* the agent call of an earlier handleSend, still awaited when a later
\* handleSend began, settles: its answer or its fault message is appended,
\* then its finally block runs
StaleSendSettles(resolved) ==
    /\ chatStale > 0
    /\ chatStale' = chatStale - 1
    /\ messages' = IF resolved THEN Append(messages, BotMsg)
                   ELSE Catch(messages, ProviderDown).messages
    /\ isChatGenerating' = FALSE
    /\ UNCHANGED <<chatPc, chatSends, chatPre, chatOutcome, chatEscaped>>
    /\ UNCHANGED <<keyVars, boardVars, retryVars, memVars, routerVars,
                   agentVars, serverVars, sseVars, searchVars, videoVars>>

\* ---- TaskBoard ----

\* geminiService.ts:155-167 -- a task as generate_task_list creates it
Task(id, isParallel, dependencies) ==
    [id |-> id, completed |-> FALSE, isParallel |-> isParallel,
     dependencies |-> dependencies, output |-> FALSE]

\* dependency lists: none, or one id, which may be the task's own or name no task
Dependencies == {{}} \cup {{d} : d \in 1..(MaxTasks + 1)}

\* task lists of MaxTasks tasks
TaskLists ==
    {[i \in 1..MaxTasks |-> Task(i, par[i], deps[i])] :
        par \in [1..MaxTasks -> BOOLEAN], deps \in [1..MaxTasks -> Dependencies]}

\* TaskBoard.tsx:83 -- getTask(id) finds a task; TRUE iff it finds one
HasTask(ts, id) == id \in 1..Len(ts)

\* a filter that keeps the completed dependencies
UnmetKeepsCompleted(ts, task) ==
    {d \in task.dependencies : HasTask(ts, d) /\ ts[d].completed}

\* TaskBoard.tsx:101-104 -- the ids of the tasks getUnmetDependencies returns
GetUnmetDependencies(ts, task) ==
    {d \in task.dependencies : HasTask(ts, d) /\ ~ts[d].completed}

\* TaskBoard.tsx:148 -- pendingParallelTasks, by id
PendingParallelTasks(ts, executing) ==
    {i \in 1..Len(ts) :
        /\ ~ts[i].completed /\ ts[i].isParallel
        /\ GetUnmetDependencies(ts, ts[i]) = {}
        /\ i \notin executing}

NoDispatch == [via |-> "none", ids |-> {}]

InitBoard ==
    /\ tasks = <<>>
    /\ executingTaskIds = {}
    /\ dispatched = NoDispatch

\* the 'Auto-Run Agent' button of a task (TaskBoard.tsx:287-296) and
\* executeAgentTask up to its first await
AutoRunAgent(id) ==
    /\ HasTask(tasks, id)
    /\ GetUnmetDependencies(tasks, tasks[id]) = {}
    /\ ~tasks[id].completed
    /\ id \notin executingTaskIds
    /\ executingTaskIds' = executingTaskIds \cup {id}
    /\ dispatched' = [via |-> "Auto-Run Agent", ids |-> {id}]
    /\ UNCHANGED tasks
    /\ UNCHANGED <<keyVars, chatVars, retryVars, memVars, routerVars, agentVars,
                   serverVars, sseVars, searchVars, videoVars>>

\* the 'Retry' button of a completed task that has an output
\* (TaskBoard.tsx:265-277)
RetryTask(id) ==
    /\ HasTask(tasks, id)
    /\ tasks[id].completed /\ tasks[id].output
    /\ id \notin executingTaskIds
    /\ executingTaskIds' = executingTaskIds \cup {id}
    /\ dispatched' = [via |-> "Retry", ids |-> {id}]
    /\ UNCHANGED tasks
    /\ UNCHANGED <<keyVars, chatVars, retryVars, memVars, routerVars, agentVars,
                   serverVars, sseVars, searchVars, videoVars>>

\* the 'Auto-Run Parallel' button, shown while more than one parallel task
\* is pending (TaskBoard.tsx:171), and handleRunParallel (124-133)
HandleRunParallel ==
    /\ Cardinality(PendingParallelTasks(tasks, executingTaskIds)) > 1
    /\ LET run == {i \in 1..Len(tasks) :
                      /\ ~tasks[i].completed /\ tasks[i].isParallel
                      /\ GetUnmetDependencies(tasks, tasks[i]) = {}
                      /\ i \notin executingTaskIds}
       IN  /\ executingTaskIds' = executingTaskIds \cup run
           /\ dispatched' = [via |-> "Auto-Run Parallel", ids |-> run]
    /\ UNCHANGED tasks
    /\ UNCHANGED <<keyVars, chatVars, retryVars, memVars, routerVars, agentVars,
                   serverVars, sseVars, searchVars, videoVars>>

\* the agent of an executing task answered: updateTaskInHistory(task.id,
\* {completed: true, output}), then the finally block
\* (AgentWorkstation.tsx:229-243); the answer may be the empty string
TaskSucceeds(id, hasOutput) ==
    /\ id \in executingTaskIds
    /\ tasks' = [tasks EXCEPT ![id].completed = TRUE, ![id].output = hasOutput]
    /\ executingTaskIds' = executingTaskIds \ {id}
    /\ UNCHANGED dispatched
    /\ UNCHANGED <<keyVars, chatVars, retryVars, memVars, routerVars, agentVars,
                   serverVars, sseVars, searchVars, videoVars>>

\* the agent of an executing task failed: the catch and the finally block
TaskFails(id) ==
    /\ id \in executingTaskIds
    /\ executingTaskIds' = executingTaskIds \ {id}
    /\ UNCHANGED <<tasks, dispatched>>
    /\ UNCHANGED <<keyVars, chatVars, retryVars, memVars, routerVars, agentVars,
                   serverVars, sseVars, searchVars, videoVars>>

\* ---- generateVideo ----

\* videoService.ts:5-82 -- VIDEO_MODELS, abridged to one model of each set
\* of capabilities, the first of the list and the fallback model
VIDEO_MODELS ==
    << [id |-> "Wan-AI/Wan2.1-T2V-1.3B", capabilities |-> {"t2v"}],
       [id |-> "stabilityai/stable-video-diffusion-img2vid-xt-1-1",
        capabilities |-> {"i2v"}],
       [id |-> "Lightricks/LTX-Video", capabilities |-> {"t2v", "i2v"}],
       [id |-> "cerspense/zeroscope_v2_576w", capabilities |-> {"t2v"}] >>

FALLBACK_MODEL_ID == "cerspense/zeroscope_v2_576w"

\* the modelId arguments: none, the id of a listed model, an id not listed
ModelIds == {"undefined", "no/such-model"} \cup {VIDEO_MODELS[i].id : i \in 1..Len(VIDEO_MODELS)}

Configs == [image : BOOLEAN, prompt : BOOLEAN]

\* Array.prototype.find: the first model with that id, VIDEO_MODELS[0] if none
FindModel(id) ==
    IF \E i \in 1..Len(VIDEO_MODELS) : VIDEO_MODELS[i].id = id
      THEN VIDEO_MODELS[CHOOSE i \in 1..Len(VIDEO_MODELS) :
                          /\ VIDEO_MODELS[i].id = id
                          /\ \A j \in 1..(i - 1) : VIDEO_MODELS[j].id # id]
      ELSE VIDEO_MODELS[1]

\* error messages, word by word
NoFault == <<>>
AttachImage == <<"is", "an", "Image-to-Video", "model", "Please", "attach", "an", "image">>
RequiresImage == <<"requires", "an", "image", "input">>
Loading == <<"Model", "is", "currently", "loading">>
TooLarge == <<"Input", "too", "large", "413">>
AccessDenied == <<"Access", "Denied", "requires", "a", "Hugging", "Face", "Token">>
TokenInvalid == <<"Invalid", "or", "Expired", "Hugging", "Face", "Token">>
RateLimit429 == <<"HuggingFace", "Error", "429">>
ServerError == <<"HuggingFace", "Error", "500">>
NetworkError == <<"Network Error", "Could", "not", "connect">>

\* videoService.ts:106-114 -- the substrings that make an error an auth error
AuthMarks == {"Access Restricted", "Token", "403", "401", "429", "Quota",
              "billing", "Network Error"}

IsAuthError(error) == \E w \in AuthMarks : Includes(error, w)

\* videoService.ts:142,154 -- runHuggingFaceGeneration throws before any fetch
ThrowsBeforeFetch(model, config) ==
    model.id = "stabilityai/stable-video-diffusion-img2vid-xt-1-1" /\ ~config.image

\* the errors one runHuggingFaceGeneration call can reject with
AttemptErrors(model, config) ==
    IF ThrowsBeforeFetch(model, config) THEN {RequiresImage}
    ELSE {Loading, TooLarge, AccessDenied, TokenInvalid, RateLimit429,
          ServerError, NetworkError}

\* videoService.ts:92 -- the validation before the try block
NeedsImage(model, config) ==
    /\ "i2v" \in model.capabilities
    /\ ~config.image
    /\ config.prompt
    /\ "t2v" \notin model.capabilities

\* generateVideo(config, modelId) up to its await, after the attempts made
\* so far: where the call stands
Enter(config, modelId, attempts) ==
    LET requestedModelId == IF modelId = "undefined" THEN VIDEO_MODELS[1].id
                            ELSE modelId
        model == FindModel(requestedModelId)
    IN  IF NeedsImage(model, config)
          THEN [pc |-> "thrown", requested |-> requestedModelId,
                attempts |-> attempts, thrown |-> AttachImage]
          ELSE [pc |-> "attempting", requested |-> requestedModelId,
                attempts |-> Append(attempts, model.id), thrown |-> NoFault]

\* a catch block that falls back whatever model had been requested
AlwaysFallsBack(requestedModelId) == FALSE

\* videoService.ts:117 -- the fallback model itself failed
IsFallback(requestedModelId) == requestedModelId = FALLBACK_MODEL_ID

\* videoService.ts:121-123 -- strict image-to-video, which the fallback
\* model cannot serve
CannotFallBack(config) ==
    /\ config.image
    /\ "i2v" \notin FindModel(FALLBACK_MODEL_ID).capabilities
    /\ ~config.prompt

\* videoService.ts:104-130 -- the catch block: rethrow, or call
\* generateVideo(config, FALLBACK_MODEL_ID)
CatchFallback(config, requestedModelId, attempts, error) ==
    IF IsFallback(requestedModelId) \/ ~IsAuthError(error) \/ CannotFallBack(config)
      THEN [pc |-> "thrown", requested |-> requestedModelId,
            attempts |-> attempts, thrown |-> error]
      ELSE Enter(config, FALLBACK_MODEL_ID, attempts)

InitVideo ==
    /\ vidPc = "idle"
    /\ vidConfig = [image |-> FALSE, prompt |-> FALSE]
    /\ vidModelId = "undefined"
    /\ vidRequested = "undefined"
    /\ vidAttempts = <<>>
    /\ vidErrors = <<>>
    /\ vidThrown = NoFault

\* generateVideo(config, modelId) called from outside
GenerateVideo(config, modelId) ==
    /\ vidPc # "attempting"
    /\ vidConfig' = config
    /\ vidModelId' = modelId
    /\ vidErrors' = <<>>
    /\ LET e == Enter(config, modelId, <<>>)
       IN  /\ vidPc' = e.pc
           /\ vidRequested' = e.requested
           /\ vidAttempts' = e.attempts
           /\ vidThrown' = e.thrown
    /\ UNCHANGED <<keyVars, chatVars, boardVars, retryVars, memVars, routerVars,
                   agentVars, serverVars, sseVars, searchVars>>

\* runHuggingFaceGeneration resolves with the video
GenerationResolves ==
    /\ vidPc = "attempting"
    /\ ~ThrowsBeforeFetch(FindModel(vidRequested), vidConfig)
    /\ vidPc' = "returned"
    /\ UNCHANGED <<vidConfig, vidModelId, vidRequested, vidAttempts, vidErrors,
                   vidThrown>>
    /\ UNCHANGED <<keyVars, chatVars, boardVars, retryVars, memVars, routerVars,
                   agentVars, serverVars, sseVars, searchVars>>

\* runHuggingFaceGeneration rejects: the catch block runs
GenerationRejects(error) ==
    /\ vidPc = "attempting"
    /\ error \in AttemptErrors(FindModel(vidRequested), vidConfig)
    /\ vidErrors' = Append(vidErrors, error)
    /\ LET c == CatchFallback(vidConfig, vidRequested, vidAttempts, error)
       IN  /\ vidPc' = c.pc
           /\ vidRequested' = c.requested
           /\ vidAttempts' = c.attempts
           /\ vidThrown' = c.thrown
    /\ UNCHANGED <<vidConfig, vidModelId>>
    /\ UNCHANGED <<keyVars, chatVars, boardVars, retryVars, memVars, routerVars,
                   agentVars, serverVars, sseVars, searchVars>>

\* ---- RealtimeMcpRouter ----

InitKeys ==
    /\ profiles = <<>>
    /\ profStored = <<>>
    /\ env = [process |-> NoVars, meta |-> NoVars]
    /\ nextProfileId = 0
    /\ keyResult = NoKeyAsked

InitUi == InitKeys /\ InitChat /\ InitBoard /\ InitVideo

\* an addProfile that creates every profile active
AddProfileActive(key, platform) ==
    /\ nextProfileId < MaxProfiles
    /\ LET newProfile == [id |-> nextProfileId + 1, key |-> key,
                          isActive |-> TRUE, platform |-> platform]
       IN  /\ profiles' = Append(profiles, newProfile)
           /\ profStored' = Append(profiles, newProfile)
    /\ nextProfileId' = nextProfileId + 1
    /\ keyResult' = NoKeyAsked
    /\ UNCHANGED env
    /\ UNCHANGED <<chatVars, boardVars, retryVars, memVars, routerVars, agentVars,
                   serverVars, sseVars, searchVars, videoVars>>

\* addProfile(name, key, platform); the panel passes a non-empty key
AddProfile(key, platform) ==
    /\ nextProfileId < MaxProfiles
    /\ LET isFirst == profiles = <<>>
           finalPlatform ==
              IF platform \in {"custom", "google"}
                THEN IF StartsWith(Trim(key), HfPrefix) THEN "huggingface"
                     ELSE IF StartsWith(Trim(key), SkPrefix) THEN "openai"
                     ELSE platform
                ELSE platform
           newProfile == [id |-> nextProfileId + 1, key |-> key,
                          isActive |-> isFirst, platform |-> finalPlatform]
       IN  /\ profiles' = Append(profiles, newProfile)
           /\ profStored' = Append(profiles, newProfile)
    /\ nextProfileId' = nextProfileId + 1
    /\ keyResult' = NoKeyAsked
    /\ UNCHANGED env
    /\ UNCHANGED <<chatVars, boardVars, retryVars, memVars, routerVars, agentVars,
                   serverVars, sseVars, searchVars, videoVars>>

\* removeProfile(id)
RemoveProfile(id) ==
    /\ LET keep(p) == p.id # id
       IN  /\ profiles' = SelectSeq(profiles, keep)
           /\ profStored' = SelectSeq(profiles, keep)
    /\ keyResult' = NoKeyAsked
    /\ UNCHANGED <<env, nextProfileId>>
    /\ UNCHANGED <<chatVars, boardVars, retryVars, memVars, routerVars, agentVars,
                   serverVars, sseVars, searchVars, videoVars>>

\* setActiveProfile(id), id 0 standing for null
SetActiveProfile(id) ==
    /\ LET activated == [i \in 1..Len(profiles) |->
                            [profiles[i] EXCEPT !.isActive = (profiles[i].id = id)]]
       IN  /\ profiles' = activated
           /\ profStored' = activated
    /\ keyResult' = NoKeyAsked
    /\ UNCHANGED <<env, nextProfileId>>
    /\ UNCHANGED <<chatVars, boardVars, retryVars, memVars, routerVars, agentVars,
                   serverVars, sseVars, searchVars, videoVars>>

\* getSmartKey(platform)
GetSmartKeyCall(platform) ==
    /\ keyResult' = [asked |-> TRUE, platform |-> platform,
                     key |-> GetSmartKey(profiles, env, platform)]
    /\ UNCHANGED <<profiles, profStored, env, nextProfileId>>
    /\ UNCHANGED <<chatVars, boardVars, retryVars, memVars, routerVars, agentVars,
                   serverVars, sseVars, searchVars, videoVars>>

----------------------------------------------------------------------------
(* Specifications *)

vars == <<retryVars, memVars, routerVars, agentVars, serverVars, sseVars, searchVars,
          uiVars>>

Init ==
    /\ InitRetry /\ InitMemory /\ InitRouter /\ InitAgent
    /\ InitServer /\ InitSse /\ InitSearch /\ InitUi

NextRetry ==
    \/ \E maxRetries \in 0..MaxRetriesArg, initialDelay \in InitialDelays :
          WithRetry(maxRetries, initialDelay)
    \/ FnResolves
    \/ \E error \in Errors : FnRejects(error)
    \/ BackoffElapsed

SpecRetry == Init /\ [][NextRetry]_vars

NextMemory ==
    \/ \E tick \in {0, 1} : AddMemory(tick)
    \/ AddMemoryNoEmbedding
    \/ \E id \in 1..MaxAdds : TogglePin(id)
    \/ \E id \in 1..MaxAdds : DeleteMemory(id)
    \/ Clear
    \/ LoadMemories

SpecMemory == Init /\ [][NextMemory]_vars

NextRouter ==
    \/ \E id \in SseIds : ConnectSse(id)
    \/ \E r \in inFlight : StartResolves(r)
    \/ \E r \in inFlight : StartRejects(r)
    \/ \E r \in inFlight : SseErrorWhileListing(r)
    \/ \E r \in inFlight, wire \in WireOutcomes \cup {"noTools", "noResult"},
          catalog \in Catalogs \cup {InternalCatalog} : ListSettles(r, wire, catalog)
    \/ \E id \in SimulatedIds, tools \in Catalogs : RegisterSimulatedConnection(id, tools)
    \/ \E i \in 1..Len(connections) : SseChannelError(i)
    \/ \E id \in ConnIds : Disconnect(id)
    \/ \E r \in inFlight : DisconnectDelete(r)
    \/ \E name \in ToolNames \cup {"unknown_tool"}, wire \in WireOutcomes : CallTool(name, wire)
    \/ GetAllToolsCall

SpecRouter == Init /\ [][NextRouter]_vars

\* the agents run once the internal connection and a remote one are registered
InitAgents ==
    /\ InitRetry /\ InitMemory /\ InitAgent
    /\ InitServer /\ InitSse /\ InitSearch /\ InitUi
    /\ connections = AgentConnections
    /\ inFlight = {}
    /\ regCount = 2
    /\ regOrder = [id \in ConnIds |->
                     CASE id = "internal" -> 1 [] id = "sse-1" -> 2 [] OTHER -> 0]
    /\ lastReg = NoReg
    /\ lastCall = NoCall
    /\ allTools = NotAsked

NextAgent ==
    \/ \E a \in Agents : AgentStart(a)
    \/ \E a \in Agents : GetClientThrows(a)
    \/ \E batch \in Batches \cup {<<>>} : ProviderResponds(batch)
    \/ \E error \in {ProviderDown} : ProviderFails(error)
    \/ ThrottleElapsed
    \/ \E i \in 1..MaxBatch, k \in 1..MaxDispatches, raised \in BOOLEAN :
          DispatchSettles(i, k, raised)
    \/ \E i \in 1..MaxBatch : FanOutSettles(i)
    \/ \E i \in 1..MaxBatch, wire \in WireOutcomes : CallSettles(i, wire)
    \/ SendFollowUp

SpecAgent == InitAgents /\ [][NextAgent]_vars

\* the overseer against a provider that may answer 429: every response
\* requests one tool call or none
RerunBatches ==
    {<<FunctionCall("remote_search", "object", FALSE, <<>>)>>,
     <<FunctionCall("unknown_tool", "object", FALSE, <<>>)>>}

NextRerun ==
    \/ AgentStart("OVERSEER")
    \/ \E batch \in RerunBatches \cup {<<>>} : ProviderResponds(batch)
    \/ \E error \in {RateLimited, ProviderDown} : ProviderFails(error)
    \/ ThrottleElapsed
    \/ \E wire \in WireOutcomes : CallSettles(1, wire)
    \/ SendFollowUp
    \/ AgentBackoffElapsed

SpecRerun == InitAgents /\ [][NextRerun]_vars

NextServer ==
    \/ InternalStart
    \/ InternalClose
    \/ \E request \in Requests, handler \in HandlerOutcomes :
          InternalSend(request, handler)

SpecServer == Init /\ [][NextServer]_vars

NextSse ==
    \/ SseStart
    \/ SseStartThrows
    \/ EsOpen
    \/ \E fatal \in BOOLEAN : EsError(fatal)
    \/ EsEndpoint
    \/ SseClose
    \/ \E wire \in PostOutcomes : SseSend(wire)

SpecSse == Init /\ [][NextSse]_vars

\* a search runs against a store of embedded nodes
InitSearches ==
    /\ InitRetry /\ InitRouter /\ InitAgent /\ InitServer /\ InitSse /\ InitSearch /\ InitUi
    /\ memories \in Stores
    /\ stored = Persisted(memories)
    /\ clock = 0
    /\ nextId = Len(memories)
    /\ memLastOp = "none"
    /\ memPre = <<>>
    /\ memEvicted = FALSE

NextSearch ==
    \/ \E q \in Embeddings \cup {NoEmbedding}, limit \in 0..MaxLimit,
          minSimilarity \in MinSimilarities : Search(q, limit, minSimilarity)
    \/ \E vecA \in Vectors, vecB \in Vectors : CosineSimilarityCall(vecA, vecB)

SpecSearch == InitSearches /\ [][NextSearch]_vars

\* an agent turn builds its context from a store that may hold a pinned node
InitContexts ==
    /\ InitRetry /\ InitRouter /\ InitAgent /\ InitServer /\ InitSse /\ InitSearch /\ InitUi
    /\ memories \in Stores \cup PinnedStores
    /\ stored = Persisted(memories)
    /\ clock = 0
    /\ nextId = Len(memories)
    /\ memLastOp = "none"
    /\ memPre = <<>>
    /\ memEvicted = FALSE

NextContext ==
    \/ \E q \in Embeddings \cup {NoEmbedding} : ContextInjection(q)
    \/ \E q \in Embeddings \cup {NoEmbedding} :
          Search(q, ContextLimit, DefaultMinSimilarity)

SpecContext == InitContexts /\ [][NextContext]_vars

\* the key manager starts without profiles, in one of the environments
InitKeyManagers ==
    /\ InitRetry /\ InitMemory /\ InitRouter /\ InitAgent
    /\ InitServer /\ InitSse /\ InitSearch /\ InitChat /\ InitBoard /\ InitVideo
    /\ profiles = <<>>
    /\ profStored = <<>>
    /\ env \in Envs
    /\ nextProfileId = 0
    /\ keyResult = NoKeyAsked

NextKeys ==
    \/ \E key \in ProfileKeys, platform \in AddPlatforms : AddProfile(key, platform)
    \/ \E id \in 1..MaxProfiles : RemoveProfile(id)
    \/ \E id \in 0..MaxProfiles : SetActiveProfile(id)
    \/ \E platform \in AskPlatforms : GetSmartKeyCall(platform)

SpecKeys == InitKeyManagers /\ [][NextKeys]_vars

NextChat ==
    \/ \E text \in Texts, attached \in BOOLEAN : HandleSend(text, attached)
    \/ \E text \in Texts, attached \in BOOLEAN : HandleSendIgnored(text, attached)
    \/ FnResolves
    \/ \E error \in ChatErrors : FnRejects(error)
    \/ BackoffElapsed
    \/ HandleSendResolves
    \/ HandleSendCatch

SpecChat == Init /\ [][NextChat]_vars

\* the chat with its Stop button
NextStop ==
    \/ \E text \in Texts, attached \in BOOLEAN : HandleSend(text, attached)
    \/ \E text \in Texts, attached \in BOOLEAN : HandleSendIgnored(text, attached)
    \/ StopGeneration
    \/ FnResolves
    \/ \E error \in {ProviderDown} : FnRejects(error)
    \/ HandleSendResolves
    \/ HandleSendCatch
    \/ \E resolved \in BOOLEAN : StaleSendSettles(resolved)

SpecStop == Init /\ [][NextStop]_vars

\* a message carries the task list of a generate_task_list call
InitBoards ==
    /\ InitRetry /\ InitMemory /\ InitRouter /\ InitAgent
    /\ InitServer /\ InitSse /\ InitSearch /\ InitKeys /\ InitChat /\ InitVideo
    /\ tasks \in TaskLists
    /\ executingTaskIds = {}
    /\ dispatched = NoDispatch

NextBoard ==
    \/ \E id \in 1..MaxTasks : AutoRunAgent(id)
    \/ \E id \in 1..MaxTasks : RetryTask(id)
    \/ HandleRunParallel
    \/ \E id \in 1..MaxTasks, hasOutput \in BOOLEAN : TaskSucceeds(id, hasOutput)
    \/ \E id \in 1..MaxTasks : TaskFails(id)

SpecBoard == InitBoards /\ [][NextBoard]_vars

NextVideo ==
    \/ \E config \in Configs, modelId \in ModelIds : GenerateVideo(config, modelId)
    \/ GenerationResolves
    \/ \E error \in AttemptErrors(FindModel(vidRequested), vidConfig) :
          GenerationRejects(error)

SpecVideo == Init /\ [][NextVideo]_vars

----------------------------------------------------------------------------
(* Claims *)

AllRateLimit(log) == \A i \in 1..Len(log) : IsRateLimit(log[i])

\* C1: when withRetry propagates an error, then (a) if every attempt failed
\* with a rate-limit signature, fn was invoked exactly maxRetries + 1 times
\* and the propagated error is the one of the last attempt; (b) if the first
\* failure was not a rate-limit error, fn was invoked exactly once, no
\* backoff delay was taken and that error is the one propagated.
C1_RetryBound ==
    rtPc = "thrown" =>
        /\ AllRateLimit(rtLog) =>
              /\ rtCalls = rtMaxRetries + 1
              /\ Len(rtLog) = rtCalls
              /\ rtThrown = rtLog[Len(rtLog)]
        /\ ~IsRateLimit(rtLog[1]) =>
              /\ rtCalls = 1
              /\ rtSleeps = 0
              /\ rtThrown = rtLog[1]

\* the retry budget was exhausted by rate-limit failures only
C1_Witness ==
    /\ rtPc = "thrown"
    /\ rtMaxRetries >= 2
    /\ AllRateLimit(rtLog)
    /\ rtCalls = rtMaxRetries + 1

InStore(m, mems) == \E j \in 1..Len(mems) : mems[j] = m

\* C7: whenever saveMemories ran its eviction branch, every node that was
\* pinned on entry is still in the store, and the number of unpinned nodes
\* left is at most MAX_MEMORIES minus the number of pinned nodes.
C7_EvictionInvariant ==
    memEvicted =>
        /\ \A i \in 1..Len(memPre) :
              memPre[i].isPinned => InStore(memPre[i], memories)
        /\ Len(SelectSeq(memories, IsUnpinned))
              <= MAX_MEMORIES - Len(SelectSeq(memPre, IsPinned))

\* eviction ran on a store holding a pinned node and dropped a node
C7_Witness ==
    /\ memEvicted
    /\ Len(memories) < Len(memPre)
    /\ \E i \in 1..Len(memPre) :
          memPre[i].isPinned /\ memPre[i].timestamp < memPre[1].timestamp

\* ids of the connections callTool may choose for a tool name
Candidates(name) ==
    {id \in ConnIds :
        /\ MapIndex(connections, id) # 0
        /\ Candidate(connections[MapIndex(connections, id)], name)}

C8_FirstRegistered ==
    lastCall # NoCall =>
        IF Candidates(lastCall.name) = {}
          THEN lastCall.raised /\ lastCall.result = "ToolNotFound"
          ELSE /\ lastCall.target \in Candidates(lastCall.name)
               /\ \A id \in Candidates(lastCall.name) :
                     regOrder[lastCall.target] <= regOrder[id]

C8_Repeatable ==
    (lastCall # NoCall /\ lastCall' # NoCall /\ lastCall'.name = lastCall.name)
        => lastCall'.target = lastCall.target

\* C8: callTool(name) sends the request to the connection that entered the
\* connection map first among the connected ones exposing the tool (an id
\* registered again while present keeps its place), it fails with
\* ToolNotFound when there is none, and two calls for the same name with no
\* change of the connection map in between choose the same connection.
C8_RouterResolution == []C8_FirstRegistered /\ [][C8_Repeatable]_vars

\* a call was routed while at least two connected connections exposed the tool
C8_Witness ==
    /\ lastCall # NoCall
    /\ Cardinality(Candidates(lastCall.name)) >= 2
    /\ lastCall.target # "internal"

RECURSIVE ConnectedToolCount(_, _)
ConnectedToolCount(conns, n) ==
    IF n = 0 THEN 0
    ELSE ConnectedToolCount(conns, n - 1)
           + (IF conns[n].status = "connected" THEN Len(conns[n].tools) ELSE 0)

\* C9: getAllTools() is the concatenation, in map order, of the catalogs of
\* the connections with status 'connected': the k-th tool of the i-th
\* connection, if connected, sits at the position given by the sizes of the
\* connected catalogs before it, tagged with that connection's id; nothing
\* else is returned, so a name exposed twice is listed twice and no entry
\* belongs to a connection that is not connected.
C9_GetAllTools ==
    allTools.asked =>
        /\ Len(allTools.value) = ConnectedToolCount(connections, Len(connections))
        /\ \A i \in 1..Len(connections) :
              connections[i].status = "connected" =>
                \A k \in 1..Len(connections[i].tools) :
                    allTools.value[ConnectedToolCount(connections, i - 1) + k]
                      = [tool |-> connections[i].tools[k],
                         connectionId |-> connections[i].id]
        /\ \A k \in 1..Len(allTools.value) :
              \E i \in 1..Len(connections) :
                  /\ connections[i].id = allTools.value[k].connectionId
                  /\ connections[i].status = "connected"

\* getAllTools() returned while two connected connections exposed the same
\* tool name and a third connection was in status 'error'
C9_Witness ==
    /\ allTools.asked
    /\ \E k1, k2 \in 1..Len(allTools.value) :
          /\ k1 # k2
          /\ allTools.value[k1].tool = allTools.value[k2].tool
    /\ \E i \in 1..Len(connections) : connections[i].status = "error"

\* C10: when registerConnection(id, transport) returns after transport.start()
\* failed, the tools/list send failed or the tools/list answer was an error,
\* the map holds a connection under id with status 'error', an empty catalog
\* and the error message.
C10_FailedRegistrationStored ==
    lastReg.failure # "none" =>
        /\ MapIndex(connections, lastReg.id) # 0
        /\ LET conn == connections[MapIndex(connections, lastReg.id)]
           IN  /\ conn.status = "error"
               /\ conn.tools = <<>>
               /\ conn.error = lastReg.message

\* a registration failed at the tools/list step next to a working connection
C10_Witness ==
    /\ lastReg.failure = "list"
    /\ lastReg.message = "rpc error"
    /\ \E i \in 1..Len(connections) : connections[i].status = "connected"

\* C2: the tool loop never performs more than the agent's turn limit of
\* tool-execution turns, and a run of runOverseerAgent (limit 6) or of
\* runResearcherAgent, runDataAnalystAgent, runDeveloperAgent (limit 5) in
\* which every provider response requested a tool call ends by returning the
\* text of the last provider response after exactly that many turns.
C2_TurnBound ==
    /\ agent # "none" => toolTurns <= TurnLimit(agent)
    /\ ( /\ agent \in {"OVERSEER", "RESEARCHER"}
         /\ onlyToolCalls
         /\ agPc = "returned" \/ (agPc = "failed" /\ toolFault) )
       => /\ agPc = "returned"
          /\ toolTurns = TurnLimit(agent)
          /\ agResult = response.text

FollowUpInFlight == agPc = "sending" /\ response # NoResponse

C3_WholeBatch ==
    (agent = "OVERSEER" /\ FollowUpInFlight) =>
        /\ Len(sent) = Len(response.functionCalls)
        /\ \A i \in 1..Len(sent) :
              /\ sent[i].kind # "running"
              /\ sent[i].id = i
              /\ sent[i].name = response.functionCalls[i].name

C3_AfterAllSettled ==
    (agent = "OVERSEER" /\ sent' # sent /\ sent' # <<>>) =>
        /\ \A i \in 1..Len(functionResponses) : functionResponses[i].kind # "running"
        /\ \A i \in 1..Len(dispatchResults) :
              \A k \in 1..Len(dispatchResults[i]) :
                  dispatchResults[i][k].status # "RUNNING"

\* C3: in runOverseerAgent the follow-up message is handed to the provider
\* only in a step taken when every call of the preceding response (and every
\* dispatch of its parallel_dispatch calls) has settled, and it holds one
\* function response per requested call, in the order of the calls.
C3_JoinBarrier == []C3_WholeBatch /\ [][C3_AfterAllSettled]_vars

\* a follow-up for a batch of two calls, one answered with an error
C3_Witness ==
    /\ agent = "OVERSEER" /\ FollowUpInFlight
    /\ Len(sent) >= 2
    /\ sent[1].kind = "content"
    /\ sent[2].kind = "error"

C4_AllOutcomes ==
    agent = "OVERSEER" =>
        \A i \in 1..Len(functionResponses) :
            (IsFanOut(agent, response.functionCalls[i])
               /\ functionResponses[i] # Running) =>
                LET fr == functionResponses[i]
                    d == response.functionCalls[i].dispatches
                IN  /\ fr.kind = "batch"
                    /\ Len(fr.outcomes) = Len(d)
                    /\ \A k \in 1..Len(d) :
                          /\ fr.outcomes[k].agent = d[k]
                          /\ fr.outcomes[k].status =
                                IF dispatchFault[i][k] THEN "ERROR" ELSE "SUCCESS"
                    /\ FollowUpInFlight => sent[i] = fr

C4_StartedTogether ==
    (agent = "OVERSEER" /\ agPc # "tools" /\ agPc' = "tools") =>
        \A i \in 1..Len(response.functionCalls) :
            IsFanOut(agent, response.functionCalls[i]) =>
                /\ Len(dispatchResults'[i]) = Len(response.functionCalls[i].dispatches)
                /\ \A k \in 1..Len(dispatchResults'[i]) :
                      dispatchResults'[i][k].status = "RUNNING"

\* C4: for a parallel_dispatch call with N dispatches all N sub-invocations
\* are started in the same step, the call settles with one aggregated result
\* holding exactly N outcomes in dispatch order, each tagged ERROR if its own
\* sub-invocation raised and SUCCESS otherwise, and that result is what the
\* follow-up message carries for the call.
C4_FanOutJoin == []C4_AllOutcomes /\ [][C4_StartedTogether]_vars

\* an aggregated result of three dispatches, the second failed and the first
\* and third succeeded, is on its way to the provider
C4_Witness ==
    /\ agent = "OVERSEER" /\ FollowUpInFlight
    /\ \E i \in 1..Len(sent) :
          /\ sent[i].kind = "batch"
          /\ Len(sent[i].outcomes) = 3
          /\ sent[i].outcomes[1].status = "SUCCESS"
          /\ sent[i].outcomes[2].status = "ERROR"
          /\ sent[i].outcomes[3].status = "SUCCESS"

\* C5: in runOverseerAgent a tool call that fails (unknown tool, transport
\* fault, result without content, unreadable arguments) never rejects the
\* body: its slot is answered with an error response, the slots of the other
\* calls keep their own responses, and the follow-up carries all of them.
C5_FailingCallAbsorbed ==
    agent = "OVERSEER" =>
        /\ ~toolFault
        /\ agPc = "failed" => rtThrown \in {ProviderDown, CredentialMissing}
        /\ \A i \in 1..Len(functionResponses) :
              (functionResponses[i] # Running
                 /\ ~IsFanOut(agent, response.functionCalls[i])) =>
                  functionResponses[i].kind =
                      IF callFault[i] THEN "error" ELSE "content"
        /\ FollowUpInFlight =>
              /\ sent = functionResponses
              /\ Len(sent) = Len(response.functionCalls)

\* a follow-up in which the first call failed and the second did not
C5_Witness ==
    /\ agent = "OVERSEER" /\ FollowUpInFlight
    /\ Len(sent) >= 2
    /\ callFault[1] /\ sent[1].kind = "error"
    /\ ~callFault[2] /\ sent[2].kind \in {"content", "batch"}

\* C6: in the sub-agent tool loops a tool call for which mcpClient.callTool
\* raises never rejects the agent body: the body fails only when the
\* provider call fails or no credential is configured.
C6_SubAgentAbsorbsToolFault ==
    agent \in {"HR_MANAGER", "RESEARCHER"} =>
        /\ ~toolFault
        /\ agPc = "failed" => rtThrown \in {ProviderDown, CredentialMissing}

\* the last send reached handleMessage
Handled == srvRequest # NoRequest /\ srvRaised # "Internal Transport not connected"

\* C11: every response envelope handleMessage returns carries the id of its
\* request and exactly one of result and error.
C11_Envelope ==
    (Handled /\ srvRaised = "none") =>
        /\ srvResponse.id = srvRequest.id
        /\ srvResponse.hasResult # srvResponse.hasError

\* an error envelope and its request share the id 2
C11_Witness ==
    /\ Handled /\ srvRequest.id = 2
    /\ srvResponse.id = 2 /\ srvResponse.hasError /\ ~srvResponse.hasResult

\* the request made a known method fault: it needs params and has none, it
\* names a prompt that is not registered, or the reader / prompt handler raised
ServingFault ==
    \/ srvRequest.method \in {"tools/call", "resources/read", "prompts/get"}
          /\ ~srvRequest.params.present
    \/ srvRequest.method = "prompts/get" /\ srvRequest.params.present
          /\ srvRequest.params.key \notin ServerPrompts
    \/ srvRequest.method \in {"resources/read", "prompts/get"}
          /\ srvHandler = "throws"

\* C12: handleMessage never raises; a request with an unknown method is
\* answered with the error envelope 'Method not found' (code -32601), and a
\* fault raised while serving a known method is answered with an error
\* envelope too.
C12_NeverRaises ==
    Handled =>
        /\ srvRaised = "none"
        /\ srvRequest.method \notin Methods =>
              /\ srvResponse.hasError
              /\ srvResponse.error.code = MethodNotFoundCode
              /\ srvResponse.error.message = "Method not found"
        /\ ServingFault => srvResponse.hasError /\ ~srvResponse.hasResult

\* a prompts/get for an unregistered prompt was answered with an error envelope
C12_Witness ==
    /\ Handled /\ srvRequest.method = "prompts/get"
    /\ srvRequest.params.present /\ srvRequest.params.key = "unknown"
    /\ srvResponse.hasError /\ srvResponse.error.message = "Prompt missing"

\* C13: a tools/call request with params sent over the connected internal
\* transport is answered with a result envelope, never an error envelope or
\* a raised fault; when the registered handler raised, the result has
\* isError = true and a text block.
C13_HandlerFaultAbsorbed ==
    (Handled /\ srvRequest.method = "tools/call" /\ srvRequest.params.present) =>
        /\ srvRaised = "none"
        /\ srvResponse.hasResult /\ ~srvResponse.hasError
        /\ srvResponse.result.shape = "callToolResult"
        /\ srvHandler = "throws" =>
              /\ srvResponse.result.isError
              /\ srvResponse.result.text = "Fault: handler fault"

\* the handler of deploy_container raised and the envelope carries a result
C13_Witness ==
    /\ Handled /\ srvRequest.method = "tools/call"
    /\ srvRequest.params.key = "deploy_container"
    /\ srvHandler = "throws"
    /\ srvResponse.hasResult /\ srvResponse.result.isError

\* C14: whenever start() has resolved, an 'endpoint' event has been received
\* since that start().
C14_ReadyBeforeResolve == startPc = "resolved" => endpointSeen

\* C15: a send() made while no 'endpoint' event has been received since
\* start() issues no request and fails with an error.
C15_SendFailsFast ==
    (sseLastSend # NoSend /\ ~sseLastSend.negotiated) =>
        /\ ~sseLastSend.issued
        /\ sseLastSend.raised # "none"

\* C16: whenever callTool has invoked send on the transport of a connection,
\* that transport's start() had succeeded and its close() had not run.
C16_SendWithinLifetime ==
    lastCall.target # "<none>" =>
        \A i \in 1..Len(connections) :
            connections[i].id = lastCall.target =>
                /\ connections[i].transport.kind # "simulated"
                /\ connections[i].transport.connected

C17_StaysDisconnected ==
    (lostAt > 0 /\ lostAt = sseStarts) =>
        /\ ~sseConnected
        /\ ~eventSource
        /\ esState = "closed"

C17_LossDisconnects ==
    (sseConnected /\ esState' # esState) =>
        /\ ~sseConnected'
        /\ ~eventSource'
        /\ esState' = "closed"

\* C17: an error on an established push channel leaves the transport
\* disconnected with its event source closed, and the transport stays so in
\* every later state until start() is called again.
C17_NoSelfReconnect == []C17_StaysDisconnected /\ [][C17_LossDisconnects]_vars

\* the channel was established and lost, and a later send found the
\* transport still disconnected
C17_Witness ==
    /\ lostAt > 0 /\ lostAt = sseStarts
    /\ startPc = "resolved"
    /\ sseLastSend.raised = "SSE Transport not connected"

\* C18: an addMemory whose embedding call yields no embedding changes
\* neither this.memories nor the persisted collection.
C18_FailedAddChangesNothing ==
    [][memLastOp' = "addMemoryNull" =>
          (memories' = memories /\ stored' = stored)]_vars

\* a failed addMemory on a store that holds a persisted node
C18_Witness ==
    /\ memLastOp = "addMemoryNull"
    /\ Len(memories) > 0
    /\ stored = Persisted(memories)

\* indices of the stored nodes whose similarity to the query is at least min
Qualifying ==
    {i \in 1..Len(memories) :
        AtLeast(CosineSimilarity(searchArgs.queryEmbedding, memories[i].embedding),
                searchArgs.minSimilarity)}

AllZero(vec) == \A i \in 1..Len(vec) : vec[i] = 0

\* C20: cosineSimilarity is the number 0 whenever one of the vectors is
\* all-zero or the lengths differ.
C20_ZeroSimilarity ==
    (simArgs.asked /\ ( \/ AllZero(simArgs.vecA)
                        \/ AllZero(simArgs.vecB)
                        \/ Len(simArgs.vecA) # Len(simArgs.vecB) )) =>
        /\ simResult.num = 0
        /\ simResult.den2 > 0

\* the similarity of a zero vector and a non-zero vector of the same length
C20_Witness ==
    /\ simArgs.asked
    /\ simArgs.vecA = <<0, 0>> /\ simArgs.vecB = <<2, 1>>
    /\ simResult = Zero

\* C22: clear() removes the unpinned memories and only those: every node
\* that is pinned before clear() is still in the store after it.
C22_ClearKeepsPinned ==
    [][Clear =>
          \A i \in 1..Len(memories) :
              memories[i].isPinned => InStore(memories[i], memories')]_vars

C29_ThrottleBetweenCalls ==
    [][(agPc # "tools" /\ agPc' = "tools") => agPc = "throttle"]_vars

\* C21: cosineSimilarity is symmetric, sim(a,b) = sim(b,a) for all vectors a
\* and b, and sim(a,a) = 1 for every non-zero vector a.
C21_SymmetricAndUnit ==
    simArgs.asked =>
        /\ simNumber = CosineSimilarityNumber(simArgs.vecB, simArgs.vecA)
        /\ simResult = CosineSimilarity(simArgs.vecB, simArgs.vecA)
        /\ (simArgs.vecA = simArgs.vecB /\ ~AllZero(simArgs.vecA)) =>
              simNumber = FloatOne

\* C26: an unavailable embedding provider never aborts the operation that
\* consulted the store: search returns the empty list, and the agent turn
\* building its system instruction goes on to the provider call with the
\* pinned nodes as its only context.
C26_EmbeddingFailureAbsorbed ==
    (searchArgs.asked /\ searchArgs.queryEmbedding = NoEmbedding) =>
        /\ searchResult = <<>>
        /\ ctxPc # "rejected"
        /\ ctxPc = "sendMessage" =>
              /\ context.built /\ ~context.raised
              /\ context.relevant = <<>>
              /\ context.pinned = Ids(SelectSeq(memories, IsPinned))

\* a turn on a store holding a pinned and an unpinned node, the embedding
\* provider being unavailable
C26_Witness ==
    /\ searchArgs.asked /\ searchArgs.queryEmbedding = NoEmbedding
    /\ ctxPc = "sendMessage"
    /\ context.pinned = <<1>>
    /\ Len(memories) > 1

\* C24: when no credential is available an agent call fails with the
\* credential-missing error after exactly one attempt: the retry wrapper
\* does not retry it and takes no backoff delay.
C24_CredentialMissingFailsOnce ==
    (rtLog # <<>> /\ rtLog[1] = CredentialMissing) =>
        /\ rtPc = "thrown"
        /\ rtThrown = CredentialMissing
        /\ rtCalls = 1
        /\ rtSleeps = 0
        /\ rtBackoffs = <<>>

\* the overseer was called without a credential and the call has failed
C24_Witness ==
    /\ agent = "OVERSEER"
    /\ agPc = "failed"
    /\ rtLog = <<CredentialMissing>>
    /\ rtThrown = CredentialMissing

\* C28: the delay before retry number k (k = 0, 1, ...) is
\* initialDelay * 2^k plus a jitter in [0, 1000) ms: the base delay doubles
\* on each retry and the jitter is below 1000 ms.
C28_BackoffSchedule ==
    /\ \A i \in 1..Len(rtBackoffs) :
          /\ rtBackoffs[i] = rtInitialDelay * Pow2(i - 1)
          /\ i > 1 => rtBackoffs[i] = 2 * rtBackoffs[i - 1]
    /\ rtBackoffs # <<>> =>
          /\ rtDelay.backoff = rtBackoffs[Len(rtBackoffs)]
          /\ rtDelay.jitter >= 0
          /\ rtDelay.jitter < JitterFactor
          /\ rtDelay.delay = rtDelay.backoff + rtDelay.jitter

\* three backoffs were taken with the default initial delay, the third
\* with the largest jitter
C28_Witness ==
    /\ rtInitialDelay = DefaultInitialDelay
    /\ Len(rtBackoffs) = 3
    /\ rtDelay.delay = 12999

\* indices of the profiles of the platform asked for, and of the active ones
ForPlatform == {i \in 1..Len(profiles) : profiles[i].platform = keyResult.platform}
ActiveForPlatform == {i \in ForPlatform : profiles[i].isActive}
FirstOf(S) == CHOOSE i \in S : \A j \in S : i <= j

\* C23: getSmartKey(platform) returns the key of the first step that yields
\* one, in the order (1) active profile for the platform, (2) environment
\* variable of the platform, (3) any saved profile for the platform, (4)
\* key-prefix heuristic, and null when no step yields a key.
C23_SmartKeyPrecedence ==
    keyResult.asked =>
        LET envKey == EnvKey(env, keyResult.platform)
            heuristic == PatternMatch(profiles, keyResult.platform)
        IN  IF ActiveForPlatform # {}
              THEN keyResult.key = profiles[FirstOf(ActiveForPlatform)].key
            ELSE IF envKey # Undefined THEN keyResult.key = envKey
            ELSE IF ForPlatform # {}
              THEN keyResult.key = profiles[FirstOf(ForPlatform)].key
            ELSE IF heuristic # Null THEN keyResult.key = heuristic
            ELSE keyResult.key = Null

\* a key is asked for a platform that has a saved inactive profile and an
\* environment variable: the variable wins
C23_Witness ==
    /\ keyResult.asked
    /\ ActiveForPlatform = {} /\ ForPlatform # {}
    /\ EnvKey(env, keyResult.platform) # Undefined
    /\ keyResult.key = EnvKey(env, keyResult.platform)

\* C25: when the provider call of a chat turn fails, after retry exhaustion
\* or with a non-retryable error, handleSend appends exactly one model
\* message carrying a textual fault, leaves every earlier message of the
\* conversation unchanged, and no exception escapes handleSend.
C25_FaultMessage ==
    /\ chatOutcome = "fault" =>
          /\ Len(messages) = Len(chatPre) + 2
          /\ SubSeq(messages, 1, Len(chatPre)) = chatPre
          /\ messages[Len(chatPre) + 1].role = "user"
          /\ messages[Len(messages)] = FaultMsg(rtThrown)
          /\ ~chatEscaped
          /\ ~isChatGenerating
    /\ (chatPc = "idle" /\ rtPc = "thrown") => chatOutcome \in {"fault", "ignored"}

\* the second turn of a conversation failed after the retries were exhausted
C25_Witness ==
    /\ chatOutcome = "fault"
    /\ chatPre # <<>>
    /\ rtCalls = DefaultMaxRetries + 1
    /\ IsRateLimit(rtThrown)

\* C30: a task that 'Auto-Run Agent' or 'Auto-Run Parallel' has dispatched for
\* execution has no dependency naming a task that is not yet completed.
C30_DependenciesMet ==
    dispatched.via \in {"Auto-Run Agent", "Auto-Run Parallel"} =>
        \A id \in dispatched.ids :
            \A d \in tasks[id].dependencies :
                HasTask(tasks, d) => tasks[d].completed

\* the batch button has dispatched two tasks, one of them depending on a
\* task that was completed before
C30_Witness ==
    /\ dispatched.via = "Auto-Run Parallel"
    /\ Cardinality(dispatched.ids) = 2
    /\ \E id \in dispatched.ids :
          \E d \in tasks[id].dependencies : HasTask(tasks, d) /\ d # id

\* C31: within one invocation of runOverseerAgent a tool is executed only in
\* the run of the body that first executed it: a rate-limit failure of a
\* later provider call never makes a tool that already ran run again.
C31_ToolsRunOnce ==
    (agent = "OVERSEER" /\ toolRuns.last.run # 0) =>
        toolRuns.first[toolRuns.last.name] = toolRuns.last.run

\* C32: once start() has rejected, the transport is not connected and stays
\* so until start() is called again: no later event of the failed attempt's
\* event source sets it to connected.
C32_FailedStartStaysDown == startPc = "rejected" => ~sseConnected

\* C33: every connection the router holds with status 'connected' has a
\* transport whose isConnected() is true, so callTool never selects a
\* connection whose transport has been closed.
C33_ConnectedIsLive ==
    \A i \in 1..Len(connections) :
        connections[i].status = "connected" => connections[i].transport.connected

\* C34: when addMemory has returned a node, that node is in this.memories
\* and in the persisted collection, whatever the number of pinned nodes.
C34_AddedNodeStored ==
    memLastOp = "addMemory" =>
        /\ InStore(memPre[1], memories)
        /\ stored.present /\ InStore(memPre[1], stored.value)

PinnedCount(mems) == Len(SelectSeq(mems, IsPinned))

\* C35: starting from an empty store, after any sequence of addMemory,
\* togglePin, deleteMemory and clear the store holds at most MAX_MEMORIES
\* nodes, in memory and persisted; the pinned nodes alone never exceed the
\* limit.
C35_CapacityBound ==
    /\ Len(memories) <= MAX_MEMORIES
    /\ PinnedCount(memories) <= MAX_MEMORIES
    /\ Len(stored.value) <= MAX_MEMORIES

\* every slot is taken by a pinned node and one more node has been added
C35_Witness ==
    /\ memLastOp = "addMemory" /\ memEvicted
    /\ PinnedCount(memPre) = MAX_MEMORIES
    /\ Len(memories) = MAX_MEMORIES

\* the handleSend invocations awaiting the result of their agent call
TurnsInFlight == chatStale + (IF chatPc = "awaiting" THEN 1 ELSE 0)

\* C36: at most one chat turn is in flight: while a handleSend awaits its
\* agent's result no other handleSend issues a provider call, the Stop
\* button pressed or not.
C36_OneTurnInFlight == TurnsInFlight <= 1

\* C37: in a parallel_dispatch an outcome is tagged SUCCESS only if a
\* sub-agent was invoked for it and completed without fault: a dispatch
\* naming an agent the engine does not handle is never reported as SUCCESS.
C37_SuccessMeansInvoked ==
    \A i \in 1..Len(dispatchResults) :
        \A k \in 1..Len(dispatchResults[i]) :
            dispatchResults[i][k].status = "SUCCESS" =>
                /\ dispatchResults[i][k].agent \in HandledAgents
                /\ ~dispatchFault[i][k]

SubAgents == Agents \ {"OVERSEER"}

\* C38: fan-out depth is at most one: the body of a sub-agent, which is what
\* parallel_dispatch starts, never starts a sub-invocation, its own
\* parallel_dispatch calls going to callTool; and every body makes a bounded
\* number of provider calls.
C38_FanOutDepthOne ==
    /\ agent \in SubAgents =>
          \A i \in 1..Len(dispatchResults) : dispatchResults[i] = <<>>
    /\ agent \in Agents =>
          /\ turns <= TurnLimit(agent)
          /\ toolTurns <= TurnLimit(agent)
          /\ rtCalls <= DefaultMaxRetries + 1

\* a sub-agent's parallel_dispatch call was answered by the server's stub
C38_Witness ==
    /\ agent \in SubAgents /\ agPc = "tools"
    /\ \E i \in 1..Len(functionResponses) :
          /\ response.functionCalls[i].name = "parallel_dispatch"
          /\ Len(response.functionCalls[i].dispatches) > 0
          /\ functionResponses[i].kind = "content"
    /\ toolRuns.last.name = "parallel_dispatch"

ActiveProfiles(profs) == {i \in 1..Len(profs) : profs[i].isActive}

C39_AtMostOneActive == Cardinality(ActiveProfiles(profiles)) <= 1

\* setActiveProfile(id) keeps the profiles and makes active exactly the one
\* whose id is id
C39_SetActive ==
    \A id \in 0..MaxProfiles :
        SetActiveProfile(id) =>
            /\ Len(profiles') = Len(profiles)
            /\ \A i \in 1..Len(profiles) :
                  /\ profiles'[i].id = profiles[i].id
                  /\ profiles'[i].key = profiles[i].key
                  /\ profiles'[i].isActive = (profiles[i].id = id)

\* a profile has just been added
Added == nextProfileId' # nextProfileId

C39_FirstEverOnly ==
    Added => (profiles'[Len(profiles')].isActive = (nextProfileId = 0))

C39_EmptyListOnly ==
    Added => (profiles'[Len(profiles')].isActive = (profiles = <<>>))

\* C39 as stated: at most one profile is active, setActiveProfile(id) makes
\* exactly the profile with that id active, and only the first profile ever
\* added is created active.
C39_FirstEverActive ==
    []C39_AtMostOneActive /\ [][C39_SetActive /\ C39_FirstEverOnly]_vars

\* C39 amended: at most one profile is active, setActiveProfile(id) makes
\* exactly the profile with that id active (none for null or an unknown id),
\* and a profile is created active exactly when the list is empty at the time
\* it is added, be it the first ever or one added after all were removed.
C39_ActiveProfile ==
    []C39_AtMostOneActive /\ [][C39_SetActive /\ C39_EmptyListOnly]_vars

\* the second profile added is the only one left and was created active
C39_Witness ==
    /\ Len(profiles) = 1
    /\ profiles[1].id = 2 /\ profiles[1].isActive
    /\ nextProfileId = 2
    /\ profStored = profiles

\* C40: generateVideo makes at most two generation attempts, the requested
\* model and then the fallback model once; when the requested model is the
\* fallback model itself a failure is propagated with no further attempt.
C40_BoundedFallback ==
    /\ Len(vidAttempts) <= 2
    /\ Len(vidErrors) <= Len(vidAttempts)
    /\ Len(vidAttempts) >= 1 =>
          vidAttempts[1] = FindModel(IF vidModelId = "undefined"
                                       THEN VIDEO_MODELS[1].id ELSE vidModelId).id
    /\ Len(vidAttempts) = 2 =>
          /\ vidAttempts[2] = FALLBACK_MODEL_ID
          /\ vidModelId # FALLBACK_MODEL_ID
    /\ (vidModelId = FALLBACK_MODEL_ID /\ Len(vidErrors) >= 1) =>
          /\ vidPc = "thrown"
          /\ vidAttempts = <<FALLBACK_MODEL_ID>>
          /\ vidThrown = vidErrors[1]
    /\ vidPc \in {"returned", "thrown"} => Len(vidErrors) \in {Len(vidAttempts) - 1, Len(vidAttempts)}

\* the requested model was refused, the fallback model was tried and failed
\* too, and its error was propagated
C40_Witness ==
    /\ vidPc = "thrown"
    /\ Len(vidAttempts) = 2 /\ Len(vidErrors) = 2
    /\ IsAuthError(vidErrors[1])
    /\ vidThrown = vidErrors[2]

====
